---- MODULE Spec2Model ----
(***************************************************************************)
(* State-machine model of warmy's synchronous store (src/src/load.rs):     *)
(* Storage (cache, deps, metadata), the Res cells it hands out, the        *)
(* Synchronizer (dirty set, watcher channel, discovery hook) and the user  *)
(* code (loaders, discovery hook) that re-enters the Storage.              *)
(*                                                                         *)
(* The store is single threaded: there is one call stack.  `stack` holds   *)
(* the user-code frames that are running (a loader called by get_by, a     *)
(* loader called by a reload closure, the discovery hook); the only        *)
(* concurrent party is the watcher thread, which changes files and posts   *)
(* events on the channel at any time.                                      *)
(***************************************************************************)
EXTENDS Integers, Sequences, FiniteSets, TLC

VARIABLES
  storage,       \* Storage { cache, deps, metadata }
  cells,         \* the Res cells allocated so far: cells[h] is the contents of handle h
  files,         \* contents of the files below the root
  watcher_rx,    \* the channel of debounced events not yet received
  synchronizer,  \* Synchronizer { dirties } plus the position of a running sync
  stack,         \* running user-code frames, innermost last
  first,         \* (key, type) -> handle returned by the first successful get
  borrows,       \* handle -> the Ref and RefMut guards of its RefCell that are live
  last           \* what the step just taken did and returned

vars == <<storage, cells, files, watcher_rx, synchronizer, stack, first, borrows, last>>

----------------------------------------------------------------------------
\* Bounds of the model.

\* Res cells that may be allocated (successful injects).
MaxCells == 2
\* Events that may wait in the channel.
MaxQueue == 1
\* User-code frames that may be nested.
MaxDepth == 2
\* Storage calls one user-code frame may make.
MaxCalls == 1

----------------------------------------------------------------------------
\* Keys (src/src/key.rs).

RootDir == "/"

\* The canonicalized root of the store.
canon_root == <<RootDir, "r">>

NoKey == [kind |-> "None", path |-> <<>>]
PathKey(p) == [kind |-> "Path", path |-> p]
LogicalKey(s) == [kind |-> "Logical", path |-> <<s>>]

\* A substitution that joins the root and the path as it is written.
vfs_join(path, root) == root \o path

\* The path below the root: a leading root marker is dropped.
vfs_substite_path(path, root) ==
  IF path # <<>> /\ Head(path) = RootDir
    THEN root \o Tail(path)
    ELSE root \o path

prepare_key(key, root) ==
  IF key.kind = "Path"
    THEN PathKey(vfs_substite_path(key.path, root))
    ELSE key

\* Files that exist or may come to exist below the root.
Files == {"f"}

\* The keys of the model: the file f by its relative path, by its absolute
\* path (what prepare_key makes of the relative path) and by what prepare_key
\* makes of the absolute path; two logical resources.
KeyF == PathKey(<<"f">>)
KeyAbsF == prepare_key(KeyF, canon_root)
KeyAbsAbsF == prepare_key(KeyAbsF, canon_root)
KeyA == LogicalKey("a")
KeyC == LogicalKey("c")
Keys == {KeyF, KeyAbsF, KeyAbsAbsF, KeyA, KeyC}

\* Event keys that hold the file name behind the root marker.
EventKey_rooted(f) == PathKey(<<RootDir, f>>)

\* A key formed from the bare file name of an event's path.
EventKey_relative(f) == PathKey(<<f>>)

\* The key the synchronizer forms from an event's path (K: From<&Path>).
EventKey(f) == PathKey(canon_root \o <<f>>)

----------------------------------------------------------------------------
\* Values and the loaders (user code; the shapes of tests/lib.rs).

Contents == {"v1", "v2"}
Missing == "none"
ProxyVal == "proxy"
StupidVal == "stupid"
LogicalVal == "logical"
NoSeen == "noseen"

\* What File::open + read yields for a path: only files below the root exist.
File(path) ==
  IF \E f \in DOMAIN files : path = canon_root \o <<f>>
    THEN files[CHOOSE f \in DOMAIN files : path = canon_root \o <<f>>]
    ELSE Missing

\* A loader fails when a storage call it made failed, or when the default
\* method cannot read the file of a path key.
LoaderFails(fr) ==
  \/ fr.failed
  \/ fr.m = "Unit" /\ fr.key.kind = "Path" /\ File(fr.key.path) = Missing

\* The value a succeeding loader returns.
LoaderValue(fr) ==
  IF fr.m = "Stupid" THEN StupidVal
  ELSE IF fr.key.kind = "Path" THEN File(fr.key.path)
  ELSE IF fr.seen # NoSeen THEN fr.seen
  ELSE LogicalVal

----------------------------------------------------------------------------
\* Storage (src/src/load.rs).

EmptyFn == [x \in {} |-> 0]

NoMeta == [key |-> NoKey, ty |-> "-", m |-> "-", h |-> 0]

\* A reload closure that always uses the default method.
ResMetaData_default(key, ty, m, h) ==
  [key |-> key, ty |-> ty, m |-> "Unit", h |-> h]

\* The reload closure of inject: it captures the key, T, M and the handle.
ResMetaData(key, ty, m, h) == [key |-> key, ty |-> ty, m |-> m, h |-> h]

Storage_new == [cache |-> EmptyFn, deps |-> EmptyFn, metadata |-> EmptyFn]

\* HashCache::get with PrivateKey<K, T>: 0 stands for None.
cache_get(s, key, ty) ==
  IF <<key, ty>> \in DOMAIN s.cache THEN s.cache[<<key, ty>>] ELSE 0

\* HashCache::save with PrivateKey<K, T>.
cache_save(cache, key, ty, h) == (<<key, ty>> :> h) @@ cache

metadata_insert(metadata, key, md) == (key :> md) @@ metadata

metadata_remove(metadata, key) ==
  [k \in DOMAIN metadata \ {key} |-> metadata[k]]

\* The loop of inject that registers key as an observer of its dependencies.
RECURSIVE register_deps(_, _, _)
register_deps(deps, key, ds) ==
  IF ds = <<>> THEN deps
  ELSE LET d == prepare_key(Head(ds), canon_root)
           cur == IF d \in DOMAIN deps THEN deps[d] ELSE <<>>
       IN register_deps((d :> Append(cur, key)) @@ deps, key, Tail(ds))

\* The outcome of a storage call: res is "Ok", "ResError" or
\* "AlreadyRegisteredKey"; storage and cells are the state it leaves.
Outcome(res, ekey, h, s, c) ==
  [res |-> res, ekey |-> ekey, h |-> h, storage |-> s, cells |-> c]

\* inject once the key is known to be free: a new cell, its reload closure,
\* the dependency edges and the cache entry.
inject_new(s, c, key, ty, m, resource, ds) ==
  LET h == Len(c) + 1
  IN Outcome("Ok", NoKey, h,
             [cache |-> cache_save(s.cache, key, ty, h),
              deps |-> register_deps(s.deps, key, ds),
              metadata |-> metadata_insert(s.metadata, key,
                                           ResMetaData(key, ty, m, h))],
             Append(c, resource))

\* An inject that stores the resource into the cell of a registered key.
inject_overwrite(s, c, key, ty, m, resource, ds) ==
  IF key \in DOMAIN s.metadata
    THEN Outcome("Ok", NoKey, s.metadata[key].h, s,
                 [c EXCEPT ![s.metadata[key].h] = resource])
    ELSE inject_new(s, c, key, ty, m, resource, ds)

\* An inject that registers the dependency edges before it checks the key.
inject_edges_first(s, c, key, ty, m, resource, ds) ==
  IF key \in DOMAIN s.metadata
    THEN Outcome("AlreadyRegisteredKey", key, 0,
                 [s EXCEPT !.deps = register_deps(@, key, ds)], c)
    ELSE inject_new(s, c, key, ty, m, resource, ds)

inject(s, c, key, ty, m, resource, ds) ==
  IF key \in DOMAIN s.metadata
    THEN Outcome("AlreadyRegisteredKey", key, 0, s, c)
    ELSE inject_new(s, c, key, ty, m, resource, ds)

\* A get_by that injects whatever the loader left, failed or not.
get_by_unchecked(s, c, fr, ds) ==
  inject(s, c, fr.key, fr.ty, fr.m, LoaderValue(fr), ds)

\* A get_by that registers the dependency edges before it looks at the
\* loader's result.
get_by_edges_first(s, c, fr, ds) ==
  IF LoaderFails(fr)
    THEN Outcome("ResError", NoKey, 0,
                 [s EXCEPT !.deps = register_deps(@, fr.key, ds)], c)
    ELSE inject(s, c, fr.key, fr.ty, fr.m, LoaderValue(fr), ds)

\* get_by after the cache miss, once the loader has returned.
get_by_loaded(s, c, fr, ds) ==
  IF LoaderFails(fr)
    THEN Outcome("ResError", NoKey, 0, s, c)
    ELSE inject(s, c, fr.key, fr.ty, fr.m, LoaderValue(fr), ds)

\* get_proxied / get_proxied_by: or_else on any error of get / get_by.
get_proxied_loaded(s, c, fr, ds) ==
  LET r == get_by_loaded(s, c, fr, ds)
  IN IF r.res = "Ok" THEN r
     ELSE inject(s, c, fr.raw, fr.ty, fr.m, ProxyVal, <<>>)

\* A proxy that is evaluated before get / get_by is tried.
proxy_calls_eager(s, c, fr, ds) == 1

\* The number of times get_proxied / get_proxied_by evaluates its proxy
\* closure: once, in the closure of or_else, which runs only on an error.
proxy_calls(s, c, fr, ds) ==
  IF get_by_loaded(s, c, fr, ds).res = "Ok" THEN 0 ELSE 1

----------------------------------------------------------------------------
\* Res (src/src/res.rs): a handle shares one RefCell, which counts the Ref
\* and RefMut guards that are live and panics on a conflicting borrow.

NoBorrow == [readers |-> 0, writers |-> 0]

BorrowFlag(b, h) == IF h \in DOMAIN b THEN b[h] ELSE NoBorrow

\* Res::borrow: allowed unless a RefMut is live.
borrow_ok(b, h) == BorrowFlag(b, h).writers = 0

\* A borrow_mut that does not look at the live guards.
borrow_mut_unchecked(b, h) == TRUE

\* Res::borrow_mut: allowed when no guard is live.
borrow_mut_ok(b, h) ==
  BorrowFlag(b, h).readers = 0 /\ BorrowFlag(b, h).writers = 0

\* A reload closure starts with res_.borrow(): the loader's frame is pushed
\* unless that borrow panics, and a panic unwinds out of sync.
closure_stack(b, h, stk) == IF borrow_ok(b, h) THEN stk ELSE <<>>

closure_sync(b, h, sy) ==
  IF borrow_ok(b, h) THEN sy ELSE [sy EXCEPT !.pc = "panicked"]

closure_step(b, h, st) ==
  IF borrow_ok(b, h) THEN st ELSE [st EXCEPT !.act = "panic"]

----------------------------------------------------------------------------
\* User-code frames and the record of the last step.

\* A running piece of user code: the loader of a get_by ("load"), the loader
\* of a reload closure ("reload") or the discovery hook ("discover").  seen is
\* the contents read from the handle its last storage call returned, failed
\* says that one of its storage calls failed, calls counts its storage calls.
Frame(op, key, raw, ty, m, h, proxied, primary) ==
  [op |-> op, key |-> key, raw |-> raw, ty |-> ty, m |-> m,
   h |-> h, proxied |-> proxied, primary |-> primary,
   seen |-> NoSeen, failed |-> FALSE, calls |-> 0]

Top == stack[Len(stack)]

Front(s) == SubSeq(s, 1, Len(s) - 1)

\* The caller's frame once a storage call returned res to it; val is the
\* contents of the returned handle.
Returned(stk, res, val) ==
  IF stk = <<>> THEN stk
  ELSE [stk EXCEPT ![Len(stk)] =
          [@ EXCEPT !.seen = IF res = "Ok" THEN val ELSE @,
                    !.failed = @ \/ res # "Ok",
                    !.calls = @ + 1]]

\* The step just taken: act names it; for a storage call that returned, res
\* is its result, h the handle and ekey the key an error carries; for a
\* reload closure that returned, ok says whether it succeeded.  For a get,
\* raw is the key as the caller passed it, m the method of the call and
\* proxies the number of times the call evaluated its proxy closure.  For
\* an event that marked its key dirty, ok is what HashSet::insert returned:
\* whether the key was not dirty yet.
Step(act) ==
  [act |-> act, key |-> NoKey, ty |-> "-", res |-> "-", ekey |-> NoKey,
   h |-> 0, ok |-> FALSE, raw |-> NoKey, m |-> "-", proxies |-> 0]

CallStep(act, key, ty, res, ekey, h) ==
  [act |-> act, key |-> key, ty |-> ty, res |-> res, ekey |-> ekey,
   h |-> h, ok |-> res = "Ok", raw |-> NoKey, m |-> "-", proxies |-> 0]

\* The first handle a successful get of (key, ty) returned.
first_seen(fst, key, ty, h) ==
  IF <<key, ty>> \in DOMAIN fst THEN fst ELSE (<<key, ty>> :> h) @@ fst

\* Who may call the storage: the client between two operations, or the
\* running user code.
CanCall ==
  IF stack = <<>> THEN synchronizer.pc = "idle"
  ELSE Top.calls < MaxCalls

\* Loaders that are running for a get and will allocate a cell on success.
PendingLoads == Cardinality({i \in 1..Len(stack) : stack[i].op = "load"})

\* There is a cell left for one more loader.
Room == Len(cells) + PendingLoads < MaxCells

----------------------------------------------------------------------------
\* Storage::get_by and the functions that delegate to it.

\* A lookup that never finds the entry.
hit_never(s, raw, ty) == 0

\* The cache lookup of get_by.
hit(s, raw, ty) == cache_get(s, prepare_key(raw, canon_root), ty)

\* A lookup that takes the method as part of the identity: an entry installed
\* with another method is a miss.
get_call_keyed(raw, ty, m, proxied) ==
  /\ CanCall
  /\ LET key == prepare_key(raw, canon_root)
         installed == IF key \in DOMAIN storage.metadata
                        THEN storage.metadata[key].m ELSE m
         h == IF installed = m THEN hit(storage, raw, ty) ELSE 0
     IN IF h # 0
          THEN /\ stack' = Returned(stack, "Ok", cells[h])
               /\ first' = first_seen(first, key, ty, h)
               /\ last' = [CallStep("hit", key, ty, "Ok", NoKey, h)
                             EXCEPT !.raw = raw, !.m = m]
          ELSE /\ Len(stack) < MaxDepth
               /\ stack' = Append(stack, Frame("load", key, raw, ty, m, 0, proxied, FALSE))
               /\ first' = first
               /\ last' = [CallStep("miss", key, ty, "-", NoKey, 0)
                             EXCEPT !.raw = raw, !.m = m]
  /\ UNCHANGED <<storage, cells, files, watcher_rx, synchronizer, borrows>>

\* The call up to the cache lookup: a hit returns the cached handle, a miss
\* starts the loader.
get_call(raw, ty, m, proxied) ==
  /\ CanCall
  /\ LET key == prepare_key(raw, canon_root)
         h == hit(storage, raw, ty)
     IN IF h # 0
          THEN /\ stack' = Returned(stack, "Ok", cells[h])
               /\ first' = first_seen(first, key, ty, h)
               /\ last' = [CallStep("hit", key, ty, "Ok", NoKey, h)
                             EXCEPT !.raw = raw, !.m = m]
          ELSE /\ Len(stack) < MaxDepth
               /\ stack' = Append(stack, Frame("load", key, raw, ty, m, 0, proxied, FALSE))
               /\ first' = first
               /\ last' = [CallStep("miss", key, ty, "-", NoKey, 0)
                             EXCEPT !.raw = raw, !.m = m]
  /\ UNCHANGED <<storage, cells, files, watcher_rx, synchronizer, borrows>>

get_by(raw, ty, m) == get_call(raw, ty, m, FALSE)

get(raw, ty) == get_by(raw, ty, "Unit")

get_proxied_by(raw, ty, m) == get_call(raw, ty, m, TRUE)

get_proxied(raw, ty) == get_call(raw, ty, "Unit", TRUE)

\* The loader of a get_by returns, declaring one of the dependency lists
\* Deps allows for its key: get_by injects what it loaded, the proxied
\* variants fall back to the proxy, and the result goes to the caller.  The
\* step is "loaded" when get_by's own result is returned, "proxy" when the
\* result is that of the fallback.
load_return(Deps) ==
  /\ stack # <<>>
  /\ Top.op = "load"
  /\ \E ds \in Deps[Top.key] :
       LET fr == Top
           g == get_by_loaded(storage, cells, fr, ds)
           r == IF fr.proxied THEN get_proxied_loaded(storage, cells, fr, ds) ELSE g
           val == IF r.res = "Ok" THEN r.cells[r.h] ELSE NoSeen
       IN /\ storage' = r.storage
          /\ cells' = r.cells
          /\ stack' = Returned(Front(stack), r.res, val)
          /\ first' = IF g.res = "Ok" THEN first_seen(first, fr.key, fr.ty, g.h)
                      ELSE first
          /\ last' = [CallStep(IF fr.proxied /\ g.res # "Ok" THEN "proxy" ELSE "loaded",
                               fr.key, fr.ty, r.res, r.ekey, r.h)
                        EXCEPT !.raw = fr.raw, !.m = fr.m,
                               !.proxies = IF fr.proxied
                                             THEN proxy_calls(storage, cells, fr, ds)
                                             ELSE 0]
  /\ UNCHANGED <<files, watcher_rx, synchronizer, borrows>>

----------------------------------------------------------------------------
\* The watcher thread.

EventKinds == {"Write", "Create", "Remove"}

\* A file changes and the watcher posts the debounced event.
fs_event(f, kind, v) ==
  /\ Len(watcher_rx) < MaxQueue
  /\ \/ kind = "Write" /\ v # Missing
     \/ kind = "Create" /\ files[f] = Missing /\ v # Missing
     \/ kind = "Remove" /\ files[f] # Missing /\ v = Missing
  /\ files' = [files EXCEPT ![f] = v]
  /\ watcher_rx' = Append(watcher_rx, [kind |-> kind, file |-> f])
  /\ last' = Step("fs_event")
  /\ UNCHANGED <<storage, cells, synchronizer, stack, first, borrows>>

----------------------------------------------------------------------------
\* Synchronizer and Store::sync.

\* dirties is the field of the struct; pc is the position of a running sync,
\* key and md the dirty key being reloaded and its detached metadata, casc
\* the observers still to notify, obs_key and obs_md the observer being
\* reloaded and its detached metadata; rlog lists the reload closures the
\* running sync has called so far.
Synchronizer_new ==
  [dirties |-> {}, pc |-> "idle", key |-> NoKey, md |-> NoMeta,
   casc |-> <<>>, obs_key |-> NoKey, obs_md |-> NoMeta, rlog |-> <<>>]

\* Store::sync is called: Synchronizer::sync starts with dequeue_fs_events.
sync ==
  /\ synchronizer.pc = "idle"
  /\ stack = <<>>
  /\ synchronizer' = [synchronizer EXCEPT !.pc = "dequeue"]
  /\ last' = Step("sync")
  /\ UNCHANGED <<storage, cells, files, watcher_rx, stack, first, borrows>>

\* A dequeue_fs_events that handles Remove, Rename and Chmod as a Write.
dequeue_fs_events_any ==
  /\ synchronizer.pc = "dequeue"
  /\ stack = <<>>
  /\ IF watcher_rx = <<>>
       THEN /\ synchronizer' = [synchronizer EXCEPT !.pc = "reload"]
            /\ last' = Step("dequeued")
            /\ UNCHANGED <<watcher_rx, stack>>
       ELSE LET ev == Head(watcher_rx)
                key == EventKey(ev.file)
            IN /\ watcher_rx' = Tail(watcher_rx)
               /\ IF ev.kind \in {"Write", "Create", "Remove", "Rename", "Chmod"}
                    THEN IF key \in DOMAIN storage.metadata
                           THEN /\ synchronizer' =
                                     [synchronizer EXCEPT !.dirties = @ \cup {key}]
                                /\ last' = [Step("dirty") EXCEPT
                                              !.key = key,
                                              !.ok = key \notin synchronizer.dirties]
                                /\ stack' = stack
                           ELSE /\ stack' = <<Frame("discover", key, key,
                                                    "-", "-", 0, FALSE, FALSE)>>
                                /\ last' = [Step("discover") EXCEPT !.key = key]
                                /\ synchronizer' = synchronizer
                    ELSE /\ last' = [Step("ignored") EXCEPT !.key = key]
                         /\ UNCHANGED <<synchronizer, stack>>
  /\ UNCHANGED <<storage, cells, files, first, borrows>>

\* A drain that remembers the key it found not installed and sends every
\* later event of that key to the discovery hook.
dequeue_fs_events_remember ==
  /\ synchronizer.pc = "dequeue"
  /\ stack = <<>>
  /\ IF watcher_rx = <<>>
       THEN /\ synchronizer' = [synchronizer EXCEPT !.pc = "reload",
                                                    !.key = NoKey]
            /\ last' = Step("dequeued")
            /\ UNCHANGED <<watcher_rx, stack>>
       ELSE LET ev == Head(watcher_rx)
                key == EventKey(ev.file)
            IN /\ watcher_rx' = Tail(watcher_rx)
               /\ IF ev.kind \in {"Write", "Create"}
                    THEN IF key \in DOMAIN storage.metadata /\ key # synchronizer.key
                           THEN /\ synchronizer' =
                                     [synchronizer EXCEPT !.dirties = @ \cup {key}]
                                /\ last' = [Step("dirty") EXCEPT
                                              !.key = key,
                                              !.ok = key \notin synchronizer.dirties]
                                /\ stack' = stack
                           ELSE /\ stack' = <<Frame("discover", key, key,
                                                    "-", "-", 0, FALSE, FALSE)>>
                                /\ last' = [Step("discover") EXCEPT !.key = key]
                                /\ synchronizer' =
                                     [synchronizer EXCEPT !.key = key]
                    ELSE /\ last' = [Step("ignored") EXCEPT !.key = key]
                         /\ UNCHANGED <<synchronizer, stack>>
  /\ UNCHANGED <<storage, cells, files, first, borrows>>

\* One turn of the loop of dequeue_fs_events; the loop ends when try_iter
\* finds the channel empty.
dequeue_fs_events ==
  /\ synchronizer.pc = "dequeue"
  /\ stack = <<>>
  /\ IF watcher_rx = <<>>
       THEN /\ synchronizer' = [synchronizer EXCEPT !.pc = "reload"]
            /\ last' = Step("dequeued")
            /\ UNCHANGED <<watcher_rx, stack>>
       ELSE LET ev == Head(watcher_rx)
                key == EventKey(ev.file)
            IN /\ watcher_rx' = Tail(watcher_rx)
               /\ IF ev.kind \in {"Write", "Create"}
                    THEN IF key \in DOMAIN storage.metadata
                           THEN /\ synchronizer' =
                                     [synchronizer EXCEPT !.dirties = @ \cup {key}]
                                /\ last' = [Step("dirty") EXCEPT
                                              !.key = key,
                                              !.ok = key \notin synchronizer.dirties]
                                /\ stack' = stack
                           ELSE /\ stack' = <<Frame("discover", key, key,
                                                    "-", "-", 0, FALSE, FALSE)>>
                                /\ last' = [Step("discover") EXCEPT !.key = key]
                                /\ synchronizer' = synchronizer
                    ELSE /\ last' = [Step("ignored") EXCEPT !.key = key]
                         /\ UNCHANGED <<synchronizer, stack>>
  /\ UNCHANGED <<storage, cells, files, first, borrows>>

\* The discovery hook returns.
discover_return ==
  /\ stack # <<>>
  /\ Top.op = "discover"
  /\ stack' = Front(stack)
  /\ last' = Step("discovered")
  /\ UNCHANGED <<storage, cells, files, watcher_rx, synchronizer, first, borrows>>

\* A sync that drops the metadata it detached.
reinsert_dropped(s, key, md) == s

\* The metadata a sync detached goes back under its key.
reinsert(s, key, md) == [s EXCEPT !.metadata = metadata_insert(@, key, md)]

\* An entry of rlog: the reload closure of handle h, stored under key, was
\* called as the dirty key's own (primary) or as an observer's; res is
\* "running" until it returns "Ok" or "Err".  val is what a succeeding
\* closure stored in its handle; saw is what the handle of the dirty key
\* held when an observer's closure was called.
Reload(key, h, primary, saw) ==
  [key |-> key, h |-> h, primary |-> primary, res |-> "running",
   val |-> NoSeen, saw |-> saw]

\* The entry of the closure that just returned.
Reloaded(rlog, ok, val) ==
  [rlog EXCEPT ![Len(rlog)] =
     [@ EXCEPT !.res = IF ok THEN "Ok" ELSE "Err",
               !.val = IF ok THEN val ELSE @]]

\* A reload_dirties whose retain keeps the key it has reloaded.
reload_dirties_keep ==
  /\ synchronizer.pc = "reload"
  /\ stack = <<>>
  /\ IF synchronizer.dirties = {}
       THEN /\ synchronizer' = [synchronizer EXCEPT !.pc = "idle", !.rlog = <<>>]
            /\ last' = Step("synced")
            /\ UNCHANGED <<storage, stack>>
       ELSE \E k \in synchronizer.dirties :
              IF k \in DOMAIN storage.metadata
                THEN LET md == storage.metadata[k]
                     IN /\ storage' = [storage EXCEPT !.metadata = metadata_remove(@, k)]
                        /\ stack' = closure_stack(borrows, md.h,
                                       <<Frame("reload", md.key, md.key,
                                               md.ty, md.m, md.h, FALSE, TRUE)>>)
                        /\ synchronizer' =
                             closure_sync(borrows, md.h,
                               [synchronizer EXCEPT
                                !.pc = "on_reload",
                                !.key = k, !.md = md,
                                !.rlog = Append(@, Reload(k, md.h, TRUE, NoSeen))])
                        /\ last' = closure_step(borrows, md.h,
                            [Step("reload") EXCEPT !.key = k, !.h = md.h])
                ELSE /\ synchronizer' = [synchronizer EXCEPT !.dirties = @ \ {k}]
                     /\ last' = [Step("reload_skip") EXCEPT !.key = k]
                     /\ UNCHANGED <<storage, stack>>
  /\ UNCHANGED <<cells, files, watcher_rx, first, borrows>>

\* A reload_dirties that takes each dirty key twice before it drops it.
reload_dirties_twice ==
  /\ synchronizer.pc = "reload"
  /\ stack = <<>>
  /\ IF synchronizer.dirties = {}
       THEN /\ synchronizer' = [synchronizer EXCEPT !.pc = "idle", !.rlog = <<>>]
            /\ last' = Step("synced")
            /\ UNCHANGED <<storage, stack>>
       ELSE \E k \in synchronizer.dirties :
              IF k \in DOMAIN storage.metadata
                THEN LET md == storage.metadata[k]
                     IN /\ storage' = [storage EXCEPT !.metadata = metadata_remove(@, k)]
                        /\ stack' = closure_stack(borrows, md.h,
                                       <<Frame("reload", md.key, md.key,
                                               md.ty, md.m, md.h, FALSE, TRUE)>>)
                        /\ synchronizer' =
                             closure_sync(borrows, md.h,
                               [synchronizer EXCEPT
                                !.dirties = IF \E i \in DOMAIN synchronizer.rlog :
                                                  synchronizer.rlog[i].key = k
                                               THEN @ \ {k} ELSE @,
                                !.pc = "on_reload",
                                !.key = k, !.md = md,
                                !.rlog = Append(@, Reload(k, md.h, TRUE, NoSeen))])
                        /\ last' = closure_step(borrows, md.h,
                            [Step("reload") EXCEPT !.key = k, !.h = md.h])
                ELSE /\ synchronizer' = [synchronizer EXCEPT !.dirties = @ \ {k}]
                     /\ last' = [Step("reload_skip") EXCEPT !.key = k]
                     /\ UNCHANGED <<storage, stack>>
  /\ UNCHANGED <<cells, files, watcher_rx, first, borrows>>

\* The closure of retain in reload_dirties starts on one dirty key (the
\* iteration order of the HashSet is unspecified): the key leaves the
\* dirty set, its metadata is detached and its reload closure is called.
\* With no dirty key left, sync returns.
reload_dirties ==
  /\ synchronizer.pc = "reload"
  /\ stack = <<>>
  /\ IF synchronizer.dirties = {}
       THEN /\ synchronizer' = [synchronizer EXCEPT !.pc = "idle", !.rlog = <<>>]
            /\ last' = Step("synced")
            /\ UNCHANGED <<storage, stack>>
       ELSE \E k \in synchronizer.dirties :
              IF k \in DOMAIN storage.metadata
                THEN LET md == storage.metadata[k]
                     IN /\ storage' = [storage EXCEPT !.metadata = metadata_remove(@, k)]
                        /\ stack' = closure_stack(borrows, md.h,
                                       <<Frame("reload", md.key, md.key,
                                               md.ty, md.m, md.h, FALSE, TRUE)>>)
                        /\ synchronizer' =
                             closure_sync(borrows, md.h,
                               [synchronizer EXCEPT
                                !.dirties = @ \ {k}, !.pc = "on_reload",
                                !.key = k, !.md = md,
                                !.rlog = Append(@, Reload(k, md.h, TRUE, NoSeen))])
                        /\ last' = closure_step(borrows, md.h,
                            [Step("reload") EXCEPT !.key = k, !.h = md.h])
                ELSE /\ synchronizer' = [synchronizer EXCEPT !.dirties = @ \ {k}]
                     /\ last' = [Step("reload_skip") EXCEPT !.key = k]
                     /\ UNCHANGED <<storage, stack>>
  /\ UNCHANGED <<cells, files, watcher_rx, first, borrows>>

\* A reload closure that stores what the loader left, failed or not.
on_reload_unchecked(c, fr) == [c EXCEPT ![fr.h] = LoaderValue(fr)]

\* A reload closure that empties the handle when the loader fails.
on_reload_poison(c, fr) ==
  IF LoaderFails(fr) THEN [c EXCEPT ![fr.h] = NoSeen]
  ELSE [c EXCEPT ![fr.h] = LoaderValue(fr)]

\* A reload closure that empties the handle before it looks at the result.
on_reload_reset(c, fr) == [c EXCEPT ![fr.h] = NoSeen]

\* What the reload closure of inject does with the loader's result.
on_reload(c, fr) ==
  IF LoaderFails(fr) THEN c ELSE [c EXCEPT ![fr.h] = LoaderValue(fr)]

\* A store whose keys have no observers.
no_observers(s, key) == <<>>

\* A cascade that notifies the observers last installed first.
observers_reversed(s, key) ==
  IF key \in DOMAIN s.deps
    THEN [i \in 1..Len(s.deps[key]) |-> s.deps[key][Len(s.deps[key]) + 1 - i]]
    ELSE <<>>

\* A cascade that also notifies the observers of the observers.
observers_deep(s, key) ==
  IF key \in DOMAIN s.deps
    THEN LET ds == s.deps[key]
             below(k) == IF k \in DOMAIN s.deps THEN s.deps[k] ELSE <<>>
         IN IF ds = <<>> THEN <<>> ELSE ds \o below(Head(ds))
    ELSE <<>>

\* A cascade that stops after the first observer.
observers_first(s, key) ==
  IF key \in DOMAIN s.deps THEN SubSeq(s.deps[key], 1, 1) ELSE <<>>

\* A cascade that notifies the logical resource a after every reload.
observers_logical(s, key) ==
  IF KeyA \in DOMAIN s.metadata THEN <<KeyA>> ELSE <<>>

\* The observers reload_dirties notifies after a successful reload of key.
observers(s, key) == IF key \in DOMAIN s.deps THEN s.deps[key] ELSE <<>>

\* The loader called by a reload closure returns to reload_dirties.  When
\* it succeeded the closure replaces the contents through res_.borrow_mut(),
\* which panics while a guard of the handle is live: the contents stay, the
\* panic unwinds out of sync and the detached metadata is lost.
reload_return ==
  /\ stack # <<>>
  /\ Top.op = "reload"
  /\ LET fr == Top
         ok == ~LoaderFails(fr)
         panic == ok /\ ~borrow_mut_ok(borrows, fr.h)
         k == synchronizer.key
         rlog == Reloaded(synchronizer.rlog, ok /\ ~panic, LoaderValue(fr))
     IN /\ cells' = IF panic THEN cells ELSE on_reload(cells, fr)
        /\ stack' = <<>>
        /\ last' = [Step(IF panic THEN "panic"
                         ELSE IF fr.primary THEN "reloaded" ELSE "obs_reloaded")
                      EXCEPT !.key = fr.key, !.h = fr.h, !.ok = ok /\ ~panic]
        /\ IF panic
             THEN /\ synchronizer' = [synchronizer EXCEPT !.pc = "panicked",
                                                          !.rlog = rlog]
                  /\ storage' = storage
             ELSE IF fr.primary
             THEN IF ok
                    THEN /\ synchronizer' =
                              [synchronizer EXCEPT !.pc = "cascade",
                                                   !.casc = observers(storage, k),
                                                   !.rlog = rlog]
                         /\ storage' = storage
                    ELSE /\ synchronizer' =
                              [synchronizer EXCEPT !.pc = "reload",
                                                   !.key = NoKey, !.md = NoMeta,
                                                   !.rlog = rlog]
                         /\ storage' = reinsert(storage, k, synchronizer.md)
             ELSE /\ synchronizer' =
                       [synchronizer EXCEPT !.pc = "cascade",
                                            !.obs_key = NoKey, !.obs_md = NoMeta,
                                            !.rlog = rlog]
                  /\ storage' = reinsert(storage, synchronizer.obs_key,
                                         synchronizer.obs_md)
  /\ UNCHANGED <<files, watcher_rx, first, borrows>>

\* A cascade that also marks every observer it notifies dirty.
cascade_refire ==
  /\ synchronizer.pc = "cascade"
  /\ stack = <<>>
  /\ IF synchronizer.casc = <<>>
       THEN /\ storage' = reinsert(storage, synchronizer.key, synchronizer.md)
            /\ synchronizer' = [synchronizer EXCEPT !.pc = "reload",
                                                    !.key = NoKey, !.md = NoMeta]
            /\ last' = [Step("reinserted") EXCEPT !.key = synchronizer.key]
            /\ stack' = stack
       ELSE LET dep == Head(synchronizer.casc)
            IN IF dep \in DOMAIN storage.metadata
                 THEN LET md == storage.metadata[dep]
                      IN /\ storage' = [storage EXCEPT
                                          !.metadata = metadata_remove(@, dep)]
                         /\ stack' = closure_stack(borrows, md.h,
                                        <<Frame("reload", md.key, md.key,
                                                md.ty, md.m, md.h, FALSE, FALSE)>>)
                         /\ synchronizer' =
                              closure_sync(borrows, md.h,
                                [synchronizer EXCEPT
                                 !.pc = "obs_reload", !.casc = Tail(@),
                                 !.dirties = @ \cup {dep},
                                 !.obs_key = dep, !.obs_md = md,
                                 !.rlog = Append(@, Reload(dep, md.h, FALSE,
                                                           cells[synchronizer.md.h]))])
                         /\ last' = closure_step(borrows, md.h,
                            [Step("obs_reload") EXCEPT !.key = dep, !.h = md.h])
                 ELSE /\ synchronizer' = [synchronizer EXCEPT !.casc = Tail(@)]
                      /\ last' = [Step("obs_skip") EXCEPT !.key = dep]
                      /\ UNCHANGED <<storage, stack>>
  /\ UNCHANGED <<cells, files, watcher_rx, first, borrows>>

\* One turn of the loop over the observers of the reloaded key; when the
\* loop is over the key's own metadata is reinserted.
cascade ==
  /\ synchronizer.pc = "cascade"
  /\ stack = <<>>
  /\ IF synchronizer.casc = <<>>
       THEN /\ storage' = reinsert(storage, synchronizer.key, synchronizer.md)
            /\ synchronizer' = [synchronizer EXCEPT !.pc = "reload",
                                                    !.key = NoKey, !.md = NoMeta]
            /\ last' = [Step("reinserted") EXCEPT !.key = synchronizer.key]
            /\ stack' = stack
       ELSE LET dep == Head(synchronizer.casc)
            IN IF dep \in DOMAIN storage.metadata
                 THEN LET md == storage.metadata[dep]
                      IN /\ storage' = [storage EXCEPT
                                          !.metadata = metadata_remove(@, dep)]
                         /\ stack' = closure_stack(borrows, md.h,
                                        <<Frame("reload", md.key, md.key,
                                                md.ty, md.m, md.h, FALSE, FALSE)>>)
                         /\ synchronizer' =
                              closure_sync(borrows, md.h,
                                [synchronizer EXCEPT
                                 !.pc = "obs_reload", !.casc = Tail(@),
                                 !.obs_key = dep, !.obs_md = md,
                                 !.rlog = Append(@, Reload(dep, md.h, FALSE,
                                                           cells[synchronizer.md.h]))])
                         /\ last' = closure_step(borrows, md.h,
                            [Step("obs_reload") EXCEPT !.key = dep, !.h = md.h])
                 ELSE /\ synchronizer' = [synchronizer EXCEPT !.casc = Tail(@)]
                      /\ last' = [Step("obs_skip") EXCEPT !.key = dep]
                      /\ UNCHANGED <<storage, stack>>
  /\ UNCHANGED <<cells, files, watcher_rx, first, borrows>>

----------------------------------------------------------------------------
\* The specification: a client and user code that get the file f with two
\* value types and the logical resource a, and get f by its absolute path
\* with a proxy.

Types == {"T1", "T2"}

\* Store::new over a root whose file f exists or not.
Init ==
  /\ storage = Storage_new
  /\ cells = <<>>
  /\ files \in [Files -> {Missing, "v1"}]
  /\ watcher_rx = <<>>
  /\ synchronizer = Synchronizer_new
  /\ stack = <<>>
  /\ first = EmptyFn
  /\ borrows = EmptyFn
  /\ last = Step("new")

\* The loader of the logical resource a declares the file f as its dependency
\* or declares none; the other loaders declare none.
MainDeps == [k \in Keys |-> IF k = KeyA THEN {<<>>, <<KeyF>>} ELSE {<<>>}]

Next ==
  \/ \E c \in {<<KeyF, "T1">>, <<KeyF, "T2">>, <<KeyA, "T1">>} :
       (Room \/ hit(storage, c[1], c[2]) # 0) /\ get(c[1], c[2])
  \/ \E raw \in {KeyAbsF}, ty \in {"T1"} :
       (Room \/ hit(storage, raw, ty) # 0) /\ get_proxied(raw, ty)
  \/ load_return(MainDeps)
  \/ \E kind \in EventKinds, v \in Contents \cup {Missing} : fs_event("f", kind, v)
  \/ sync
  \/ dequeue_fs_events
  \/ discover_return
  \/ reload_dirties
  \/ reload_return
  \/ cascade

Spec == Init /\ [][Next]_vars

----------------------------------------------------------------------------
\* The four ways to get a resource, used by the client and by user code on
\* the file f with one value type: get, get_by with the second method,
\* get_proxied (also with the absolute path) and get_proxied_by.

NextApi ==
  \/ (Room \/ hit(storage, KeyF, "T1") # 0) /\ get(KeyF, "T1")
  \/ (Room \/ hit(storage, KeyF, "T1") # 0) /\ get_by(KeyF, "T1", "Stupid")
  \/ \E raw \in {KeyF, KeyAbsF} :
       (Room \/ hit(storage, raw, "T1") # 0) /\ get_proxied(raw, "T1")
  \/ (Room \/ hit(storage, KeyF, "T1") # 0) /\ get_proxied_by(KeyF, "T1", "Stupid")
  \/ load_return(MainDeps)
  \/ \E kind \in EventKinds, v \in Contents \cup {Missing} : fs_event("f", kind, v)
  \/ sync
  \/ dequeue_fs_events
  \/ discover_return
  \/ reload_dirties
  \/ reload_return
  \/ cascade

SpecApi == Init /\ [][NextApi]_vars

----------------------------------------------------------------------------
\* The chain of tests/lib.rs (logical_with_deps) made one longer: the client
\* loads the file f, the logical resource a that depends on f and the logical
\* resource c that depends on a, and calls sync again and again.

ChainDeps ==
  [k \in Keys |-> IF k = KeyA THEN {<<KeyF>>}
                  ELSE IF k = KeyC THEN {<<KeyA>>}
                  ELSE {<<>>}]

NextChain ==
  \/ \E raw \in {KeyF, KeyA, KeyC} : stack = <<>> /\ get(raw, "T1")
  \/ load_return(ChainDeps)
  \/ \E kind \in EventKinds, v \in Contents \cup {Missing} : fs_event("f", kind, v)
  \/ sync
  \/ dequeue_fs_events
  \/ discover_return
  \/ reload_dirties
  \/ reload_return
  \/ cascade

\* User code returns, a running sync goes on, and the client keeps calling
\* sync.  The watcher debounces its events, so the loop of dequeue_fs_events
\* is not fed for ever: it finds the channel empty and ends.
Fairness ==
  /\ SF_vars(sync)
  /\ WF_vars(dequeue_fs_events)
  /\ []<>(synchronizer.pc # "dequeue")
  /\ WF_vars(discover_return)
  /\ WF_vars(reload_dirties)
  /\ WF_vars(reload_return)
  /\ WF_vars(cascade)
  /\ WF_vars(load_return(ChainDeps))

FairChain == Init /\ [][NextChain]_vars /\ Fairness

----------------------------------------------------------------------------
\* Key normalization (tests/lib.rs, vfs_leading_slash): prepare_key applied
\* to relative paths and to the same paths behind a leading root marker,
\* under several roots; and a store whose file f is got in both forms.

\* The longest relative path normalized.
MaxPathLen == 3

Components == {"d", "f", "g"}

RECURSIVE PathsOfLen(_)
PathsOfLen(n) ==
  IF n = 0 THEN {<<>>}
  ELSE {Append(p, c) : p \in PathsOfLen(n - 1), c \in Components}

\* The relative paths of one to MaxPathLen normal components.
RelPaths == UNION {PathsOfLen(n) : n \in 1..MaxPathLen}

\* Canonicalized roots.
Roots == {<<RootDir>>, canon_root, canon_root \o <<"d">>}

\* The file f written with a leading root marker.
KeyRootF == PathKey(<<RootDir, "f">>)

\* K::prepare_key is applied to the path p and to p behind the root marker,
\* with the root r.
key_prepare(p, r) ==
  /\ stack = <<>>
  /\ last' = [act |-> "prepare_key", root |-> r, path |-> p,
              key |-> prepare_key(PathKey(p), r),
              rooted |-> prepare_key(PathKey(<<RootDir>> \o p), r)]
  /\ UNCHANGED <<storage, cells, files, watcher_rx, synchronizer, stack, first, borrows>>

NextKey ==
  \/ \E p \in RelPaths, r \in Roots : key_prepare(p, r)
  \/ \E raw \in {KeyF, KeyRootF} :
       (Room \/ hit(storage, raw, "T1") # 0) /\ get(raw, "T1")
  \/ load_return(MainDeps)

SpecKey == Init /\ [][NextKey]_vars

----------------------------------------------------------------------------
\* Proxied resources: the client gets the file f with get, get_proxied (with
\* both value types) and get_proxied_by, files change and the client calls
\* sync again and again.

NextProxy ==
  \/ stack = <<>> /\ (Room \/ hit(storage, KeyF, "T1") # 0) /\ get(KeyF, "T1")
  \/ \E ty \in Types :
       stack = <<>> /\ (Room \/ hit(storage, KeyF, ty) # 0) /\ get_proxied(KeyF, ty)
  \/ stack = <<>> /\ (Room \/ hit(storage, KeyF, "T2") # 0)
       /\ get_proxied_by(KeyF, "T2", "Stupid")
  \/ load_return(MainDeps)
  \/ \E kind \in EventKinds, v \in Contents \cup {Missing} : fs_event("f", kind, v)
  \/ sync
  \/ dequeue_fs_events
  \/ discover_return
  \/ reload_dirties
  \/ reload_return
  \/ cascade

\* As Fairness, for the loaders of this specification.
FairnessProxy ==
  /\ SF_vars(sync)
  /\ WF_vars(dequeue_fs_events)
  /\ []<>(synchronizer.pc # "dequeue")
  /\ WF_vars(discover_return)
  /\ WF_vars(reload_dirties)
  /\ WF_vars(reload_return)
  /\ WF_vars(cascade)
  /\ WF_vars(load_return(MainDeps))

FairProxy == Init /\ [][NextProxy]_vars /\ FairnessProxy

----------------------------------------------------------------------------
\* Store::new: the client builds the store from a StoreOpt whose root is the
\* directory /r, the link /l to it or the path /x that does not exist, and
\* then uses the store it got.

OptRoots == {canon_root, <<RootDir, "l">>, <<RootDir, "x">>}

\* No path: canonicalize failed.
NoPath == <<>>

\* Path::canonicalize of the root.
canonicalize(root) ==
  IF root \in {canon_root, <<RootDir, "l">>} THEN canon_root ELSE NoPath

\* Nothing has been built yet: no storage, no channel, no synchronizer.
NoStorage == [cache |-> "none"]
NoChannel == "none"
NoSynchronizer == [pc |-> "none"]

\* A Store::new that builds the store over the root as it is configured when
\* the root cannot be canonicalized.
Store_new_lenient(root) ==
  /\ synchronizer.pc = "none"
  /\ storage' = Storage_new
  /\ watcher_rx' = <<>>
  /\ synchronizer' = Synchronizer_new
  /\ last' = [CallStep("Store_new", PathKey(root), "-", "Ok", NoKey, 0)
                EXCEPT !.raw = PathKey(root)]
  /\ UNCHANGED <<cells, files, stack, first, borrows>>

\* Store::new with the root of the StoreOpt.  The step records the root as
\* raw, the error's path as ekey and, for the store built, root() as key.
Store_new(root) ==
  /\ synchronizer.pc = "none"
  /\ LET canon == canonicalize(root)
     IN IF canon = NoPath
          THEN /\ last' = [CallStep("Store_new", NoKey, "-", "RootDoesNotExist",
                                    PathKey(root), 0)
                             EXCEPT !.raw = PathKey(root)]
               /\ UNCHANGED <<storage, watcher_rx, synchronizer>>
          ELSE /\ storage' = Storage_new
               /\ watcher_rx' = <<>>
               /\ synchronizer' = Synchronizer_new
               /\ last' = [CallStep("Store_new", PathKey(canon), "-", "Ok", NoKey, 0)
                             EXCEPT !.raw = PathKey(root)]
  /\ UNCHANGED <<cells, files, stack, first, borrows>>

InitNew ==
  /\ storage = NoStorage
  /\ cells = <<>>
  /\ files \in [Files -> {Missing, "v1"}]
  /\ watcher_rx = NoChannel
  /\ synchronizer = NoSynchronizer
  /\ stack = <<>>
  /\ first = EmptyFn
  /\ borrows = EmptyFn
  /\ last = Step("start")

NextNew ==
  \/ \E root \in OptRoots : Store_new(root)
  \/ /\ synchronizer.pc # "none"
     /\ Room \/ hit(storage, KeyF, "T1") # 0
     /\ get(KeyF, "T1")
  \/ load_return(MainDeps)
  \/ \E kind \in EventKinds, v \in Contents \cup {Missing} :
       synchronizer.pc # "none" /\ fs_event("f", kind, v)
  \/ sync
  \/ dequeue_fs_events
  \/ discover_return
  \/ reload_dirties
  \/ reload_return
  \/ cascade

SpecNew == InitNew /\ [][NextNew]_vars

----------------------------------------------------------------------------
\* Two observers of one file: the client loads the file f and the logical
\* resources a and c, which both declare f as their dependency, in any
\* order; a reload may read f or ask for a file that does not exist, and
\* then fails.

FanDeps == [k \in Keys |-> IF k \in {KeyA, KeyC} THEN {<<KeyF>>} ELSE {<<>>}]

NextFan ==
  \/ \E raw \in {KeyF, KeyA, KeyC} : stack = <<>> /\ get(raw, "T1")
  \/ \E raw \in {KeyF, KeyAbsF} :
       stack # <<>> /\ Top.op = "reload" /\ get(raw, "T1")
  \/ load_return(FanDeps)
  \/ \E kind \in EventKinds, v \in Contents \cup {Missing} : fs_event("f", kind, v)
  \/ sync
  \/ dequeue_fs_events
  \/ discover_return
  \/ reload_dirties
  \/ reload_return
  \/ cascade

SpecFan == Init /\ [][NextFan]_vars

----------------------------------------------------------------------------
\* Events of every kind: the watcher also posts the debounced events that are
\* neither Write nor Create, for the file f that the client and its loaders
\* get.

\* The kinds of DebouncedEvent other than Write, Create and Remove; each is
\* posted here with the path of the file.
OtherKinds == {"NoticeWrite", "NoticeRemove", "Chmod", "Rename", "Rescan"}

\* The watcher posts an event of another kind; a Rename moves the file away.
fs_other(f, kind) ==
  /\ Len(watcher_rx) < MaxQueue
  /\ kind = "Rename" => files[f] # Missing
  /\ files' = IF kind = "Rename" THEN [files EXCEPT ![f] = Missing] ELSE files
  /\ watcher_rx' = Append(watcher_rx, [kind |-> kind, file |-> f])
  /\ last' = Step("fs_event")
  /\ UNCHANGED <<storage, cells, synchronizer, stack, first, borrows>>

NextEvents ==
  \/ (Room \/ hit(storage, KeyF, "T1") # 0) /\ get(KeyF, "T1")
  \/ load_return(MainDeps)
  \/ \E kind \in EventKinds, v \in Contents \cup {Missing} : fs_event("f", kind, v)
  \/ \E kind \in OtherKinds : fs_other("f", kind)
  \/ sync
  \/ dequeue_fs_events
  \/ discover_return
  \/ reload_dirties
  \/ reload_return
  \/ cascade

SpecEvents == Init /\ [][NextEvents]_vars

----------------------------------------------------------------------------
\* One key, two methods: the client and the user code ask for the file f
\* with the default method and with the second method, in any order.

NextMethods ==
  \/ (Room \/ hit(storage, KeyF, "T1") # 0) /\ get(KeyF, "T1")
  \/ (Room \/ hit(storage, KeyF, "T1") # 0) /\ get_by(KeyF, "T1", "Stupid")
  \/ load_return(MainDeps)
  \/ \E kind \in EventKinds, v \in Contents \cup {Missing} : fs_event("f", kind, v)
  \/ sync
  \/ dequeue_fs_events
  \/ discover_return
  \/ reload_dirties
  \/ reload_return
  \/ cascade

SpecMethods == Init /\ [][NextMethods]_vars

----------------------------------------------------------------------------
\* One key, two value types, nested: the client gets the file f as T1 or as
\* T2, and every loader (of a get or of a reload closure) that calls the
\* storage gets the same file with the other value type.

NextNested ==
  \/ \E ty \in Types : stack = <<>> /\ Room /\ get(KeyF, ty)
  \/ \E ty \in Types :
       /\ stack # <<>>
       /\ Top.op \in {"load", "reload"}
       /\ Top.ty # ty
       /\ (Room \/ hit(storage, KeyF, ty) # 0)
       /\ get(KeyF, ty)
  \/ load_return(MainDeps)
  \/ \E kind \in EventKinds, v \in Contents \cup {Missing} : fs_event("f", kind, v)
  \/ sync
  \/ dequeue_fs_events
  \/ discover_return
  \/ reload_dirties
  \/ reload_return
  \/ cascade

SpecNested == Init /\ [][NextNested]_vars

----------------------------------------------------------------------------
\* Refused injects: the client and the user code get the file f and the
\* logical resource a, whose loader always declares f as its dependency,
\* with both value types; a is also asked for with a proxy.

NextInject ==
  \/ \E c \in {<<KeyF, "T1">>, <<KeyA, "T1">>, <<KeyA, "T2">>} :
       (Room \/ hit(storage, c[1], c[2]) # 0) /\ get(c[1], c[2])
  \/ (Room \/ hit(storage, KeyA, "T2") # 0) /\ get_proxied(KeyA, "T2")
  \/ load_return(FanDeps)
  \/ \E kind \in EventKinds, v \in Contents \cup {Missing} : fs_event("f", kind, v)
  \/ sync
  \/ dequeue_fs_events
  \/ discover_return
  \/ reload_dirties
  \/ reload_return
  \/ cascade

SpecInject == Init /\ [][NextInject]_vars

----------------------------------------------------------------------------
\* A cyclic dependency declaration: the loader of the file f declares the
\* logical resource a as its dependency and the loader of a declares f.
\* The client and the user code get both, and the client keeps calling sync.

CycleDeps ==
  [k \in Keys |-> IF k = KeyAbsF THEN {<<KeyA>>}
                  ELSE IF k = KeyA THEN {<<KeyF>>}
                  ELSE {<<>>}]

NextCycle ==
  \/ \E raw \in {KeyF, KeyA} :
       (Room \/ hit(storage, raw, "T1") # 0) /\ get(raw, "T1")
  \/ load_return(CycleDeps)
  \/ \E kind \in EventKinds, v \in Contents \cup {Missing} : fs_event("f", kind, v)
  \/ sync
  \/ dequeue_fs_events
  \/ discover_return
  \/ reload_dirties
  \/ reload_return
  \/ cascade

\* Every loader and the discovery hook return, a running sync goes on, and
\* the loop of dequeue_fs_events finds the channel empty and ends.
FairnessCycle ==
  /\ WF_vars(dequeue_fs_events)
  /\ []<>(synchronizer.pc # "dequeue")
  /\ WF_vars(discover_return)
  /\ WF_vars(reload_dirties)
  /\ WF_vars(reload_return)
  /\ WF_vars(cascade)
  /\ WF_vars(load_return(CycleDeps))

FairCycle == Init /\ [][NextCycle]_vars /\ FairnessCycle

----------------------------------------------------------------------------
\* Two files written in one batch: the files f and g, the logical resource
\* a that reads f and declares it (the LogicalFoo of tests/lib.rs) and the
\* logical resource c that reads a and declares a and g.  The client loads
\* them, the watcher rewrites both files, and one sync drains both events.

KeyG == PathKey(<<"g">>)
KeyAbsG == prepare_key(KeyG, canon_root)

OrderKeys == Keys \cup {KeyG, KeyAbsG}

\* The dependencies each loader declares: the first one is the resource
\* whose handle it reads.
OrderDeps ==
  [k \in OrderKeys |-> IF k = KeyA THEN {<<KeyF>>}
                       ELSE IF k = KeyC THEN {<<KeyA, KeyG>>}
                       ELSE {<<>>}]

InitOrder ==
  /\ storage = Storage_new
  /\ cells = <<>>
  /\ files = [f \in {"f", "g"} |-> "v1"]
  /\ watcher_rx = <<>>
  /\ synchronizer = Synchronizer_new
  /\ stack = <<>>
  /\ first = EmptyFn
  /\ borrows = EmptyFn
  /\ last = Step("new")

NextOrder ==
  \/ \E raw \in {KeyF, KeyG, KeyA, KeyC} : stack = <<>> /\ get(raw, "T1")
  \/ stack # <<>> /\ Top.key = KeyA /\ get(KeyF, "T1")
  \/ stack # <<>> /\ Top.key = KeyC /\ get(KeyA, "T1")
  \/ load_return(OrderDeps)
  \/ \E f \in {"f", "g"} : fs_event(f, "Write", "v2")
  \/ sync
  \/ dequeue_fs_events
  \/ discover_return
  \/ reload_dirties
  \/ reload_return
  \/ cascade

SpecOrder == InitOrder /\ [][NextOrder]_vars

\* reload_dirties as a function of the order in which retain visits the
\* dirty keys, for loaders that read the handle of their first declared
\* dependency: the cells it leaves, from the storage s and the cells cs.

\* The handle of an installed key.
handle_of(s, k) == s.metadata[k].h

\* What the loader of key returns: the file of a path key, the contents of
\* the handle it reads for a logical key.
order_load(s, cs, key) ==
  IF key.kind = "Path" THEN File(key.path)
  ELSE LET ds == CHOOSE d \in OrderDeps[key] : TRUE
       IN IF ds = <<>> THEN LogicalVal
          ELSE cs[handle_of(s, prepare_key(Head(ds), canon_root))]

\* The reload closure of key: a failed loader leaves the cell alone.
order_on_reload(s, cs, key) ==
  IF key.kind = "Path" /\ File(key.path) = Missing THEN cs
  ELSE [cs EXCEPT ![handle_of(s, key)] = order_load(s, cs, key)]

\* The loop over the observers of the reloaded key k, whose own metadata is
\* detached.
RECURSIVE order_cascade(_, _, _, _)
order_cascade(s, cs, k, obs) ==
  IF obs = <<>> THEN cs
  ELSE order_cascade(s,
                     IF Head(obs) \in DOMAIN s.metadata /\ Head(obs) # k
                       THEN order_on_reload(s, cs, Head(obs))
                       ELSE cs,
                     k, Tail(obs))

\* retain over the dirty keys in the given order.
RECURSIVE reload_dirties_order(_, _, _)
reload_dirties_order(s, cs, order) ==
  IF order = <<>> THEN cs
  ELSE LET k == Head(order)
           ok == ~(k.kind = "Path" /\ File(k.path) = Missing)
       IN reload_dirties_order(
            s,
            IF k \notin DOMAIN s.metadata THEN cs
            ELSE IF ok THEN order_cascade(s, order_on_reload(s, cs, k), k,
                                          observers(s, k))
            ELSE cs,
            Tail(order))

\* The orders in which a HashSet may yield its elements.
Orders(D) ==
  {o \in [1..Cardinality(D) -> D] : \A i, j \in DOMAIN o : o[i] = o[j] => i = j}

----------------------------------------------------------------------------
\* Borrows held across sync: the client gets the file f, takes and drops
\* Ref and RefMut guards of the handles it was given, and calls sync while
\* it may still hold some.

\* Ref guards of one handle the client holds at a time.
MaxBorrows == 2

\* The flags of the handles once those of h are fl.
with_flag(b, h, fl) ==
  [x \in (DOMAIN b \cup {h}) \ (IF fl = NoBorrow THEN {h} ELSE {}) |->
     IF x = h THEN fl ELSE b[x]]

\* The client calls Res::borrow on a handle and keeps the Ref.
Res_borrow(h) ==
  /\ stack = <<>>
  /\ synchronizer.pc = "idle"
  /\ h \in 1..Len(cells)
  /\ BorrowFlag(borrows, h).readers < MaxBorrows
  /\ IF borrow_ok(borrows, h)
       THEN /\ borrows' = with_flag(borrows, h,
                                    [BorrowFlag(borrows, h) EXCEPT !.readers = @ + 1])
            /\ last' = [Step("borrow") EXCEPT !.h = h, !.ok = TRUE]
            /\ synchronizer' = synchronizer
       ELSE /\ borrows' = borrows
            /\ last' = [Step("panic") EXCEPT !.h = h]
            /\ synchronizer' = [synchronizer EXCEPT !.pc = "panicked"]
  /\ UNCHANGED <<storage, cells, files, watcher_rx, stack, first>>

\* The client calls Res::borrow_mut on a handle and keeps the RefMut.
Res_borrow_mut(h) ==
  /\ stack = <<>>
  /\ synchronizer.pc = "idle"
  /\ h \in 1..Len(cells)
  /\ IF borrow_mut_ok(borrows, h)
       THEN /\ borrows' = with_flag(borrows, h,
                                    [BorrowFlag(borrows, h) EXCEPT !.writers = @ + 1])
            /\ last' = [Step("borrow_mut") EXCEPT !.h = h, !.ok = TRUE]
            /\ synchronizer' = synchronizer
       ELSE /\ borrows' = borrows
            /\ last' = [Step("panic") EXCEPT !.h = h]
            /\ synchronizer' = [synchronizer EXCEPT !.pc = "panicked"]
  /\ UNCHANGED <<storage, cells, files, watcher_rx, stack, first>>

\* The client drops a guard it holds.
Res_drop(h, guard) ==
  /\ stack = <<>>
  /\ synchronizer.pc = "idle"
  /\ h \in DOMAIN borrows
  /\ \/ /\ guard = "Ref"
        /\ borrows[h].readers > 0
        /\ borrows' = with_flag(borrows, h, [borrows[h] EXCEPT !.readers = @ - 1])
     \/ /\ guard = "RefMut"
        /\ borrows[h].writers > 0
        /\ borrows' = with_flag(borrows, h, [borrows[h] EXCEPT !.writers = @ - 1])
  /\ last' = [Step("drop") EXCEPT !.h = h]
  /\ UNCHANGED <<storage, cells, files, watcher_rx, synchronizer, stack, first>>

NextBorrow ==
  \/ (Room \/ hit(storage, KeyF, "T1") # 0) /\ get(KeyF, "T1")
  \/ load_return(MainDeps)
  \/ \E h \in 1..MaxCells : Res_borrow(h)
  \/ \E h \in 1..MaxCells : Res_borrow_mut(h)
  \/ \E h \in 1..MaxCells, guard \in {"Ref", "RefMut"} : Res_drop(h, guard)
  \/ \E kind \in EventKinds, v \in Contents \cup {Missing} : fs_event("f", kind, v)
  \/ sync
  \/ dequeue_fs_events
  \/ discover_return
  \/ reload_dirties
  \/ reload_return
  \/ cascade

SpecBorrow == Init /\ [][NextBorrow]_vars

----------------------------------------------------------------------------
\* A proxy that is reloaded: the client asks for the file f by its absolute
\* path with a proxy, so that the proxy is installed under the key the
\* events carry; the file is also got with the second value type, whose
\* loader may declare the logical resource a as its dependency.

ProxyDeps == [k \in Keys |-> IF k = KeyAbsF THEN {<<>>, <<KeyA>>} ELSE {<<>>}]

NextProxyDeps ==
  \/ stack = <<>> /\ Room /\ get_proxied(KeyAbsF, "T1")
  \/ (Room \/ hit(storage, KeyF, "T2") # 0) /\ get(KeyF, "T2")
  \/ load_return(ProxyDeps)
  \/ \E kind \in EventKinds, v \in Contents \cup {Missing} : fs_event("f", kind, v)
  \/ sync
  \/ dequeue_fs_events
  \/ discover_return
  \/ reload_dirties
  \/ reload_return
  \/ cascade

SpecProxyDeps == Init /\ [][NextProxyDeps]_vars

----------------------------------------------------------------------------
\* A resource that depends on itself: the loader of the file f declares f
\* as its dependency, so that inject pushes the key of f onto its own
\* list of observers.  The client and the user code get f with both value
\* types.

SelfDeps == [k \in Keys |-> IF k = KeyAbsF THEN {<<KeyF>>} ELSE {<<>>}]

NextSelf ==
  \/ \E ty \in Types :
       (Room \/ hit(storage, KeyF, ty) # 0) /\ get(KeyF, ty)
  \/ load_return(SelfDeps)
  \/ \E kind \in EventKinds, v \in Contents \cup {Missing} : fs_event("f", kind, v)
  \/ sync
  \/ dequeue_fs_events
  \/ discover_return
  \/ reload_dirties
  \/ reload_return
  \/ cascade

SpecSelf == Init /\ [][NextSelf]_vars

----------------------------------------------------------------------------
\* Properties.

\* C1: in every reachable state each normalized key has at most one cache
\* entry: one value type and one handle, the handle its reload closure
\* updates.
C1_OneEntryPerKey ==
  /\ \A e1, e2 \in DOMAIN storage.cache : e1[1] = e2[1] => e1 = e2
  /\ \A e \in DOMAIN storage.cache :
       e[1] \in DOMAIN storage.metadata =>
         /\ storage.metadata[e[1]].ty = e[2]
         /\ storage.metadata[e[1]].h = storage.cache[e]

\* C2: every successful get / get_by of (k, T) returns the handle the first
\* successful get of (k, T) returned.
C2_SameHandle ==
  (last.act \in {"hit", "loaded"} /\ last.ok)
    => last.h = first[<<last.key, last.ty>>]

\* C3: once a get::<T1>(k) has succeeded, a get::<T2>(k) whose loader
\* produced a value fails with AlreadyRegisteredKey carrying the normalized
\* key k, and the T1 entry stays what it was.
C3_OtherTypeRefused ==
  \A t \in Types :
    (/\ last.act \in {"hit", "loaded"}
     /\ last.res # "ResError"
     /\ t # last.ty
     /\ <<last.key, t>> \in DOMAIN first)
    => /\ last.res = "AlreadyRegisteredKey"
       /\ last.ekey = last.key
       /\ cache_get(storage, last.key, t) = first[<<last.key, t>>]

\* C4: the contents of a handle change only inside sync, when a reload
\* closure returns: a posted event and any get leave every handle's contents
\* as they are.
C4_ContentsChangeOnlyInSync ==
  [][ (\E h \in 1..Len(cells) : cells'[h] # cells[h])
        => /\ synchronizer.pc \in {"on_reload", "obs_reload"}
           /\ last'.act \in {"reloaded", "obs_reloaded"} ]_vars

\* An event on f has been posted and a get has returned f's handle since:
\* the handle still holds the old contents.
C4_Witness ==
  /\ last.act = "hit"
  /\ last.key = KeyAbsF
  /\ watcher_rx # <<>>
  /\ cells[last.h] = "v1"
  /\ files["f"] = "v2"

\* C5: when a sync has reloaded the only dirty key b with success and a is
\* the one observer of b, the sync has called the reload closure of b's handle
\* once and the reload closure of a's handle once, the latter after the
\* contents of b's handle were replaced.
C5_CascadeOnce ==
  (synchronizer.pc = "reload" /\ stack = <<>>) =>
    \A i \in DOMAIN synchronizer.rlog, a \in DOMAIN storage.metadata :
      LET rlog == synchronizer.rlog
          b == rlog[i].key
      IN (/\ rlog[i].primary
          /\ rlog[i].res = "Ok"
          /\ \A j \in DOMAIN rlog : rlog[j].primary => j = i
          /\ b \in DOMAIN storage.deps
          /\ storage.deps[b] = <<a>>
          /\ a # b)
         => /\ i + 1 \in DOMAIN rlog
            /\ rlog[i + 1].key = a
            /\ rlog[i + 1].h = storage.metadata[a].h
            /\ ~rlog[i + 1].primary
            /\ rlog[i + 1].res # "running"
            /\ rlog[i + 1].saw = rlog[i].val
            /\ rlog[i].val = cells[rlog[i].h]
            /\ Cardinality({j \in DOMAIN rlog : rlog[j].key = a}) = 1
            /\ Cardinality({j \in DOMAIN rlog : rlog[j].key = b}) = 1

\* A sync has reloaded f after a Write and then a, the observer of f.
C5_Witness ==
  /\ synchronizer.pc = "reload"
  /\ stack = <<>>
  /\ KeyAbsF \in DOMAIN storage.deps
  /\ storage.deps[KeyAbsF] = <<KeyA>>
  /\ Len(synchronizer.rlog) = 2
  /\ synchronizer.rlog[1].key = KeyAbsF
  /\ synchronizer.rlog[1].res = "Ok"
  /\ synchronizer.rlog[1].val = "v2"
  /\ synchronizer.rlog[2].key = KeyA
  /\ synchronizer.rlog[2].res = "Ok"

\* C6: with c depending on a and a depending on b, once a Write on b has made
\* a sync reload b and, by cascade, a, the sync calls that follow call the
\* reload closure of c before any further event is posted.
C6_ChainReloads ==
  (/\ last.act = "obs_reloaded"
   /\ last.ok
   /\ last.key = KeyA
   /\ KeyA \in DOMAIN storage.deps
   /\ storage.deps[KeyA] = <<KeyC>>
   /\ KeyC \in DOMAIN storage.metadata)
  ~> \/ last.act \in {"reload", "obs_reload"} /\ last.key = KeyC
     \/ last.act = "fs_event"

\* C7: a Write or Create event posted for the installed path key of f, also
\* while a sync is running, is drained by a later sync, which marks the key
\* dirty; a dirty key leads to one call of its reload closure, after which
\* the handle holds the file's value if the loader succeeded.
C7_EventLeadsToReload ==
  /\ (/\ \E i \in DOMAIN watcher_rx :
            watcher_rx[i].kind \in {"Write", "Create"} /\ watcher_rx[i].file = "f"
      /\ \/ KeyAbsF \in DOMAIN storage.metadata
         \/ synchronizer.key = KeyAbsF
         \/ synchronizer.obs_key = KeyAbsF)
     ~> (last.act = "dirty" /\ last.key = KeyAbsF)
  /\ (KeyAbsF \in synchronizer.dirties)
     ~> (/\ last.act = "reloaded"
         /\ last.key = KeyAbsF
         /\ (last.ok => cells[last.h] = files["f"]))

\* A reload of f has stored the value written to the file.
C7_Witness ==
  /\ last.act = "reloaded"
  /\ last.key = KeyAbsF
  /\ last.ok
  /\ cells[last.h] = "v2"
  /\ files["f"] = "v2"

\* C8: when the reload closure of k fails inside sync, the contents of every
\* handle stay what they were, k is installed again with the same closure,
\* the cache and the dependency edges are untouched, and sync goes on.
C8_FailedReloadKeeps ==
  [][ (last'.act \in {"reloaded", "obs_reloaded"} /\ ~last'.ok)
        => /\ cells' = cells
           /\ last'.key \in DOMAIN storage'.metadata
           /\ storage'.metadata[last'.key] =
                (IF last'.act = "reloaded" THEN synchronizer.md
                 ELSE synchronizer.obs_md)
           /\ storage'.cache = storage.cache
           /\ storage'.deps = storage.deps
           /\ synchronizer'.pc \in {"reload", "cascade"} ]_vars

\* The reload of f has just failed and its handle holds the old contents.
C8_Witness ==
  /\ last.act = "reloaded"
  /\ ~last.ok
  /\ last.key \in DOMAIN storage.metadata
  /\ cells[last.h] = "v1"
  /\ files["f"] = Missing

\* C9: after a failed reload of k, a get of k returns the same handle, the
\* one the failed closure belongs to.
C9_FailedReloadSameHandle ==
  (last.act = "reloaded" /\ ~last.ok)
    => /\ last.key \in DOMAIN storage.metadata
       /\ cache_get(storage, last.key, storage.metadata[last.key].ty) = last.h

\* C10: a get of a key with no entry whose loader fails returns the loader's
\* error, not a StoreError, and leaves the storage and the cells as they
\* were; when the loader made no storage call the key's slot is still empty,
\* so that the next get calls the loader again.
C10_FailedLoadInstallsNothing ==
  [][ (/\ stack # <<>>
       /\ Top.op = "load"
       /\ ~Top.proxied
       /\ LoaderFails(Top)
       /\ last'.act = "loaded")
        => /\ last'.res = "ResError"
           /\ storage' = storage
           /\ cells' = cells
           /\ (Top.calls = 0 => hit(storage', Top.raw, Top.ty) = 0) ]_vars

\* A get of f has just failed in its loader, and f has no cache entry.
C10_Witness ==
  /\ last.act = "loaded"
  /\ last.res = "ResError"
  /\ last.key = KeyAbsF
  /\ cache_get(storage, last.key, last.ty) = 0
  /\ last.key \notin DOMAIN storage.metadata

\* C11: a get / get_by that hits the cache never invokes the loader: the
\* hit starts no user code and changes neither the store nor a handle; a
\* loader is started for a get only when (key, type) has no cache entry; and
\* the loader of an installed key runs again only when sync calls its reload
\* closure.  So the loader runs for an installed (key, type) once for the
\* load that installed it and once per reload, however many gets follow.
C11_HitNeverLoads ==
  [][ /\ last'.act = "hit"
           => /\ Len(stack') = Len(stack)
              /\ storage' = storage
              /\ cells' = cells
      /\ (Len(stack') > Len(stack) /\ stack'[Len(stack')].op = "load")
           => cache_get(storage, stack'[Len(stack')].key,
                        stack'[Len(stack')].ty) = 0
      /\ (Len(stack') > Len(stack) /\ stack'[Len(stack')].op = "reload")
           => /\ last'.act \in {"reload", "obs_reload"}
              /\ synchronizer.pc \in {"reload", "cascade"} ]_vars

\* The file f was installed by get_by with the second method and a later get
\* of it has returned the cached handle to the client.
C11_Witness ==
  /\ last.act = "hit"
  /\ last.key = KeyAbsF
  /\ stack = <<>>
  /\ KeyAbsF \in DOMAIN storage.metadata
  /\ storage.metadata[KeyAbsF].m = "Stupid"
  /\ storage.metadata[KeyAbsF].h = last.h

\* C12: for every relative path p and every root r, prepare_key of p and
\* of p behind a leading root marker both yield the key r joined with p; so
\* a get of either form resolves to the same entry and the same handle.
C12_LeadingRootIgnored ==
  /\ last.act = "prepare_key"
       => /\ last.key = last.rooted
          /\ last.key = PathKey(last.root \o last.path)
  /\ (last.act \in {"hit", "loaded"} /\ last.ok)
       => /\ last.key = KeyAbsF
          /\ DOMAIN storage.cache = {<<KeyAbsF, "T1">>}
          /\ last.h = storage.cache[<<KeyAbsF, "T1">>]
          /\ last.h = first[<<KeyAbsF, "T1">>]

\* f was loaded by its relative path and a get of the path with the leading
\* root marker has returned the cached handle.
C12_Witness ==
  /\ last.act = "hit"
  /\ last.raw = KeyRootF
  /\ stack = <<>>
  /\ last.h = first[<<KeyAbsF, "T1">>]
  /\ Len(cells) = 1

C14_NoProxyOnStoreError ==
  [][ (/\ stack # <<>>
       /\ Top.op = "load"
       /\ Top.proxied
       /\ ~LoaderFails(Top)
       /\ Top.key \in DOMAIN storage.metadata
       /\ last'.act \in {"loaded", "proxy"})
      => /\ last'.res = "AlreadyRegisteredKey"
         /\ last'.ekey = Top.key
         /\ storage' = storage
         /\ cells' = cells ]_vars

\* C15: a call of get_proxied / get_proxied_by evaluates its proxy closure at
\* most once, and not at all when the underlying get / get_by succeeds, by a
\* cache hit or by a successful load; it evaluates it when it falls back.
C15_ProxyLazy ==
  /\ last.proxies <= 1
  /\ (last.act \in {"hit", "loaded"} /\ last.ok) => last.proxies = 0
  /\ last.act = "proxy" => last.proxies = 1

\* A get_proxied or get_proxied_by with the second value type (no other call
\* uses it) has loaded the file and returned the loaded value.
C15_Witness ==
  /\ last.act = "loaded"
  /\ last.ok
  /\ last.ty = "T2"
  /\ last.raw = KeyF
  /\ cells[last.h] # ProxyVal
  /\ last.proxies = 0

C17_StoreNew ==
  [][ last'.act = "Store_new"
        => IF canonicalize(last'.raw.path) = NoPath
             THEN /\ last'.res = "RootDoesNotExist"
                  /\ last'.ekey = last'.raw
                  /\ storage' = NoStorage
                  /\ watcher_rx' = NoChannel
                  /\ synchronizer' = NoSynchronizer
             ELSE /\ last'.res = "Ok"
                  /\ storage'.cache = EmptyFn
                  /\ storage'.deps = EmptyFn
                  /\ storage'.metadata = EmptyFn
                  /\ synchronizer'.dirties = {}
                  /\ watcher_rx' = <<>>
                  /\ last'.key = PathKey(canon_root) ]_vars

\* Store::new has just failed on the root /x.
C17_Witness ==
  /\ last.act = "Store_new"
  /\ last.res = "RootDoesNotExist"
  /\ last.ekey = PathKey(<<RootDir, "x">>)
  /\ storage = NoStorage

\* C18: every key of the cache, of the metadata map and of the dependency
\* map is in the form prepare_key gives it (a path key lies below the root);
\* and the proxy a get_proxied / get_proxied_by installed is the entry a
\* later get of the same key looks up.
C18_KeysPrepared ==
  LET prepared(k) ==
        k.kind = "Path" =>
          /\ Len(k.path) > Len(canon_root)
          /\ SubSeq(k.path, 1, Len(canon_root)) = canon_root
  IN /\ \A e \in DOMAIN storage.cache : prepared(e[1])
     /\ \A k \in DOMAIN storage.metadata : prepared(k)
     /\ \A k \in DOMAIN storage.deps : prepared(k)
     /\ (last.act = "proxy" /\ last.ok)
          => cache_get(storage, last.key, last.ty) = last.h

\* C19: the set of installed keys only grows: no step removes a cache entry,
\* and a key leaves the metadata map only when sync detaches its reload
\* closure to call it; whenever sync is between two dirty keys or has
\* returned, every closure it detached (the dirty key's and each
\* observer's) is back in the map under the same key, for the same handle,
\* whether its reload succeeded or failed.
C19_InstalledOnlyGrows ==
  /\ [][ /\ DOMAIN storage.cache \subseteq DOMAIN storage'.cache
         /\ \A e \in DOMAIN storage.cache :
              storage'.cache[e] # storage.cache[e] => last'.act = "proxy"
         /\ \A k \in DOMAIN storage.metadata :
              \/ k \in DOMAIN storage'.metadata
              \/ /\ last'.act \in {"reload", "obs_reload"}
                 /\ last'.key = k ]_vars
  /\ [](synchronizer.pc \in {"idle", "dequeue", "reload"}
          => \A i \in 1..Len(synchronizer.rlog) :
               LET r == synchronizer.rlog[i]
               IN /\ r.res \in {"Ok", "Err"}
                  /\ r.key \in DOMAIN storage.metadata
                  /\ storage.metadata[r.key].key = r.key
                  /\ storage.metadata[r.key].h = r.h
                  /\ cache_get(storage, r.key, storage.metadata[r.key].ty) # 0)

\* A sync has called the reload closure of one dirty key, the reload failed,
\* and the closure is back in the map.
C19_Witness ==
  /\ synchronizer.pc = "reload"
  /\ synchronizer.dirties = {}
  /\ stack = <<>>
  /\ Len(synchronizer.rlog) = 1
  /\ synchronizer.rlog[1].res = "Err"
  /\ synchronizer.rlog[1].key \in DOMAIN storage.metadata
  /\ last.act = "reloaded"

\* C20: in every reachable state each dependent listed in deps[d] is an
\* installed key: it has a cache entry and a reload closure (in the metadata
\* map, or held by the running sync that detached it to call it), while d
\* itself need not be installed.  An edge whose dependency d is not
\* installed causes no reload and no error: sync reloads observers only
\* after the reload of an installed dirty key, and an event on such a d goes
\* to the discovery hook.
C20_DependentsInstalled ==
  LET detached == {synchronizer.key, synchronizer.obs_key} \ {NoKey}
      installed(k) ==
        /\ \E e \in DOMAIN storage.cache : e[1] = k
        /\ k \in DOMAIN storage.metadata \/ k \in detached
  IN /\ \A d \in DOMAIN storage.deps :
          \A i \in 1..Len(storage.deps[d]) : installed(storage.deps[d][i])
     /\ \A k \in synchronizer.dirties : installed(k)
     /\ synchronizer.pc \in {"on_reload", "cascade", "obs_reload"}
          => /\ installed(synchronizer.key)
             /\ synchronizer.md.key = synchronizer.key
     /\ last.act = "discover"
          => /\ last.key \notin DOMAIN storage.metadata
             /\ last.key \notin synchronizer.dirties
             /\ Len(stack) = 1
             /\ stack[1].op = "discover"

\* The logical resource a depends on the file f, which is not installed; an
\* event on f has been dequeued: it went to the discovery hook and the sync
\* has reloaded nothing.
C20_Witness ==
  /\ KeyAbsF \in DOMAIN storage.deps
  /\ storage.deps[KeyAbsF] = <<KeyA>>
  /\ KeyAbsF \notin DOMAIN storage.metadata
  /\ KeyA \in DOMAIN storage.metadata
  /\ last.act = "discover"
  /\ last.key = KeyAbsF
  /\ synchronizer.rlog = <<>>

\* C21: during sync the dependents in deps[k] of a dirty key k are reloaded
\* if and only if k's own reload succeeded: whenever sync is between two
\* dirty keys or about to return, a successful reload of k in its log is
\* followed by one call of the reload closure of each dependent in deps[k],
\* and a failed one by none.
C21_CascadeIffReloaded ==
  (synchronizer.pc = "reload" /\ stack = <<>>) =>
    \A i \in DOMAIN synchronizer.rlog :
      LET rlog == synchronizer.rlog
          k == rlog[i].key
          ds == IF k \in DOMAIN storage.deps THEN storage.deps[k] ELSE <<>>
          next == {j \in DOMAIN rlog : j > i /\ rlog[j].primary}
          end == IF next = {} THEN Len(rlog)
                 ELSE (CHOOSE j \in next : \A j2 \in next : j <= j2) - 1
      IN rlog[i].primary =>
           /\ rlog[i].res \in {"Ok", "Err"}
           /\ rlog[i].res = "Err" => end = i
           /\ rlog[i].res = "Ok" =>
                /\ end - i = Len(ds)
                /\ \A n \in 1..Len(ds) :
                     /\ rlog[i + n].key = ds[n]
                     /\ ~rlog[i + n].primary

\* A sync has reloaded f with success and then both observers of f.
C21_Witness ==
  /\ synchronizer.pc = "reload"
  /\ stack = <<>>
  /\ Len(synchronizer.rlog) = 3
  /\ synchronizer.rlog[1].key = KeyAbsF
  /\ synchronizer.rlog[1].res = "Ok"
  /\ {synchronizer.rlog[2].key, synchronizer.rlog[3].key} = {KeyA, KeyC}
  /\ last.act = "reinserted"

\* C22: for a dirty key k, the contents of k's handle are replaced before
\* any dependent of k is reloaded (each dependent's closure is called with
\* k's handle holding the newly loaded value), and the dependents are
\* reloaded in the order they were installed in (handles are numbered in
\* installation order).
C22_CascadeOrder ==
  \A i, j \in DOMAIN synchronizer.rlog :
    LET rlog == synchronizer.rlog
    IN (/\ rlog[i].primary
        /\ ~rlog[j].primary
        /\ i < j
        /\ \A n \in i + 1 .. j : ~rlog[n].primary)
       => /\ rlog[i].res = "Ok"
          /\ rlog[j].saw = rlog[i].val
          /\ rlog[i].val = cells[rlog[i].h]
          /\ \A n \in i + 1 .. j - 1 : rlog[n].h < rlog[j].h

\* c was installed before a; a sync has written v2 to f's handle and then
\* reloaded c and a, in that order, each seeing v2.
C22_Witness ==
  /\ synchronizer.pc = "reload"
  /\ stack = <<>>
  /\ Len(synchronizer.rlog) = 3
  /\ synchronizer.rlog[1].val = "v2"
  /\ synchronizer.rlog[2].key = KeyC
  /\ synchronizer.rlog[2].saw = "v2"
  /\ synchronizer.rlog[3].key = KeyA
  /\ synchronizer.rlog[3].saw = "v2"

\* C23: the cascade is one level deep per dirty key: with c depending on a
\* and a depending on the file f, a sync that processes events on f calls
\* the reload closures of f and of a, and never that of c.
C23_OneLevel ==
  \A i \in DOMAIN synchronizer.rlog :
    LET r == synchronizer.rlog[i]
    IN /\ r.key # KeyC
       /\ ~r.primary =>
            /\ i > 1
            /\ synchronizer.rlog[i - 1].primary
            /\ synchronizer.rlog[i - 1].key \in DOMAIN storage.deps
            /\ \E n \in DOMAIN storage.deps[synchronizer.rlog[i - 1].key] :
                 storage.deps[synchronizer.rlog[i - 1].key][n] = r.key

\* c observes a and a observes f; a sync has reloaded f and a and is about
\* to return.
C23_Witness ==
  /\ synchronizer.pc = "reload"
  /\ synchronizer.dirties = {}
  /\ stack = <<>>
  /\ KeyC \in DOMAIN storage.metadata
  /\ KeyA \in DOMAIN storage.deps
  /\ storage.deps[KeyA] = <<KeyC>>
  /\ Len(synchronizer.rlog) = 2
  /\ synchronizer.rlog[1].key = KeyAbsF
  /\ synchronizer.rlog[2].key = KeyA
  /\ synchronizer.rlog[2].res = "Ok"

C25_DirtiesDrained ==
  /\ [](/\ synchronizer.pc = "idle" => synchronizer.dirties = {}
        /\ synchronizer.pc \in {"on_reload", "cascade", "obs_reload"}
             => synchronizer.key \notin synchronizer.dirties)
  /\ [][ /\ \A k \in synchronizer'.dirties \ synchronizer.dirties :
              last'.act = "dirty" /\ last'.key = k
         /\ last'.act \in {"reload", "reload_skip"}
              => /\ last'.key \in synchronizer.dirties
                 /\ synchronizer'.dirties = synchronizer.dirties \ {last'.key}
         /\ last'.act \in {"reloaded", "obs_reloaded", "reinserted"}
              => synchronizer'.dirties = synchronizer.dirties ]_vars

\* The reload of the dirty key f has just failed: nothing is dirty any more.
C25_Witness ==
  /\ last.act = "reloaded"
  /\ ~last.ok
  /\ last.key = KeyAbsF
  /\ synchronizer.pc = "reload"
  /\ synchronizer.dirties = {}
  /\ watcher_rx = <<>>

\* C26: several Write / Create events for the same installed key drained by
\* one sync cause one primary reload of that key in that sync: an event
\* whose key is already dirty leaves the dirty set as it is, and the log of
\* a sync never holds two primary reloads of one key.
C26_OneReloadPerKey ==
  /\ [][ (last'.act = "dirty" /\ ~last'.ok)
           => /\ last'.key \in synchronizer.dirties
              /\ synchronizer'.dirties = synchronizer.dirties ]_vars
  /\ [](\A i, j \in DOMAIN synchronizer.rlog :
          (/\ synchronizer.rlog[i].primary
           /\ synchronizer.rlog[j].primary
           /\ synchronizer.rlog[i].key = synchronizer.rlog[j].key)
          => i = j)
  /\ [][ last'.act = "reload"
           => \A i \in DOMAIN synchronizer.rlog :
                synchronizer.rlog[i].primary
                  => synchronizer.rlog[i].key # last'.key ]_vars

\* A sync has drained a second event for f, which was dirty already.
C26_Witness ==
  /\ last.act = "dirty"
  /\ ~last.ok
  /\ last.key = KeyAbsF
  /\ synchronizer.pc = "dequeue"
  /\ synchronizer.dirties = {KeyAbsF}
  /\ synchronizer.rlog = <<>>

\* C27: only Write and Create events have an effect: when sync drains an
\* event of any other kind, the step adds nothing to the dirty set, does not
\* call the discovery hook, and leaves the storage and the contents of every
\* handle unchanged.
C27_OtherKindsIgnored ==
  [][ (/\ synchronizer.pc = "dequeue"
       /\ watcher_rx # <<>>
       /\ Head(watcher_rx).kind \notin {"Write", "Create"}
       /\ last'.act \in {"dirty", "discover", "ignored"})
      => /\ last'.act = "ignored"
         /\ watcher_rx' = Tail(watcher_rx)
         /\ synchronizer' = synchronizer
         /\ stack' = <<>>
         /\ storage' = storage
         /\ cells' = cells ]_vars

\* The installed file f has been moved away or removed; the sync has drained
\* the event and f's handle holds the old contents, nothing is dirty.
C27_Witness ==
  /\ last.act = "ignored"
  /\ last.key = KeyAbsF
  /\ KeyAbsF \in DOMAIN storage.metadata
  /\ files["f"] = Missing
  /\ cells[storage.metadata[KeyAbsF].h] = "v1"
  /\ synchronizer.dirties = {}

\* C28: when sync drains a Write / Create event with path p: if the path key
\* of p is installed at that moment, the key is added to the dirty set and
\* the discovery hook is not called; otherwise the discovery hook is called
\* once with p and the dirty set is left as it is.
C28_DirtyOrDiscover ==
  [][ (/\ synchronizer.pc = "dequeue"
       /\ watcher_rx # <<>>
       /\ Head(watcher_rx).kind \in {"Write", "Create"}
       /\ last'.act \in {"dirty", "discover", "ignored"})
      => LET key == PathKey(canon_root \o <<Head(watcher_rx).file>>)
         IN /\ storage' = storage
            /\ cells' = cells
            /\ watcher_rx' = Tail(watcher_rx)
            /\ IF key \in DOMAIN storage.metadata
                 THEN /\ last'.act = "dirty"
                      /\ synchronizer'.dirties = synchronizer.dirties \cup {key}
                      /\ stack' = <<>>
                 ELSE /\ last'.act = "discover"
                      /\ synchronizer'.dirties = synchronizer.dirties
                      /\ Len(stack') = 1
                      /\ stack'[1].op = "discover"
                      /\ stack'[1].key = key ]_vars

\* A first event for the installed file f has been drained: f is dirty and
\* no hook is running.
C28_Witness ==
  /\ last.act = "dirty"
  /\ last.ok
  /\ last.key = KeyAbsF
  /\ KeyAbsF \in DOMAIN storage.metadata
  /\ synchronizer.dirties = {KeyAbsF}
  /\ stack = <<>>

\* C29: a reload always uses the loader method the entry was installed
\* with: the closure stored by a get_by / get_proxied_by with method M
\* carries M, sync calls the loader of the stored value type and method on
\* the stored handle, and a successful reload stores what that method
\* yields; so a handle installed with the second method never holds what the
\* default method reads from the file, and conversely.
C29_ReloadKeepsMethod ==
  /\ [][ /\ (last'.act \in {"loaded", "proxy"} /\ last'.ok)
              => LET k == IF last'.act = "loaded" THEN last'.key ELSE last'.raw
                 IN /\ k \in DOMAIN storage'.metadata
                    /\ storage'.metadata[k].m = last'.m
                    /\ storage'.metadata[k].ty = last'.ty
                    /\ storage'.metadata[k].h = last'.h
         /\ last'.act \in {"reload", "obs_reload"}
              => /\ stack'[1].m = storage.metadata[last'.key].m
                 /\ stack'[1].ty = storage.metadata[last'.key].ty
                 /\ stack'[1].h = storage.metadata[last'.key].h
         /\ (last'.act \in {"reloaded", "obs_reloaded"} /\ last'.ok)
              => cells'[last'.h] =
                   (IF stack[1].m = "Stupid" THEN StupidVal
                    ELSE File(stack[1].key.path)) ]_vars
  /\ [](\A k \in DOMAIN storage.metadata :
          LET md == storage.metadata[k]
          IN /\ md.m = "Stupid" => cells[md.h] \in {StupidVal, ProxyVal}
             /\ md.m = "Unit" => cells[md.h] # StupidVal)

\* The file was installed with the second method and then written; its
\* reload has stored the second method's value, not the file's contents.
C29_Witness ==
  /\ last.act = "reloaded"
  /\ last.ok
  /\ last.key = KeyAbsF
  /\ synchronizer.md.m = "Stupid"
  /\ synchronizer.md.h = last.h
  /\ cells[last.h] = StupidVal
  /\ files["f"] = "v2"

\* C30: the method is not part of the cache identity.  A get or get_by
\* starts a loader only when the cache holds nothing for (key, type),
\* whatever the method; a hit returns the handle the first successful get
\* installed, changes neither the storage nor any contents and starts no
\* loader; the closure of a key is the one its installing get_by stored,
\* it is never replaced, and every reload runs the method it captured on
\* the installed handle.
C30_MethodNotInIdentity ==
  [][ /\ last'.act = "miss" => <<last'.key, last'.ty>> \notin DOMAIN storage.cache
      /\ last'.act = "hit"
           => /\ <<last'.key, last'.ty>> \in DOMAIN first
              /\ last'.h = first[<<last'.key, last'.ty>>]
              /\ storage' = storage
              /\ cells' = cells
              /\ Len(stack') = Len(stack)
      /\ (last'.act = "loaded" /\ last'.ok)
           => /\ last'.key \notin DOMAIN storage.metadata
              /\ storage'.metadata[last'.key] =
                   [key |-> last'.key, ty |-> last'.ty, m |-> last'.m,
                    h |-> first'[<<last'.key, last'.ty>>]]
      /\ \A k \in DOMAIN storage.metadata \cap DOMAIN storage'.metadata :
           storage'.metadata[k] = storage.metadata[k]
      /\ last'.act \in {"reload", "obs_reload"}
           => LET md == storage.metadata[last'.key]
              IN /\ stack'[1].m = md.m
                 /\ stack'[1].h = md.h
                 /\ md.h = first[<<last'.key, md.ty>>]
      /\ last'.act = "reinserted"
           => storage'.metadata[last'.key].h = first[<<last'.key, "T1">>]
      /\ (last'.act \in {"reloaded", "obs_reloaded"} /\ last'.ok)
           => cells'[stack[1].h] =
                (IF stack[1].m = "Stupid" THEN StupidVal
                 ELSE File(stack[1].key.path)) ]_vars

\* A get with the default method hits the entry that get_by installed with
\* the second method, while a change of the file waits to be synchronized.
C30_Witness ==
  /\ last.act = "hit"
  /\ last.m = "Unit"
  /\ last.key = KeyAbsF
  /\ KeyAbsF \in DOMAIN storage.metadata
  /\ storage.metadata[KeyAbsF].m = "Stupid"
  /\ storage.metadata[KeyAbsF].h = last.h
  /\ cells[last.h] = StupidVal
  /\ files["f"] = "v2"
  /\ watcher_rx # <<>>
  /\ watcher_rx[1] = [kind |-> "Write", file |-> "f"]

\* C31: when the loader of a get of (k, T1) has got the same key k with the
\* other value type and returns a value, the outer get fails with
\* AlreadyRegisteredKey(k) and the cache holds exactly one entry for k.
\* (Under SpecNested every storage call of a loader is such a nested get.)
C31_NestedGetRefused ==
  [][ (/\ last'.act = "loaded"
       /\ stack # <<>>
       /\ Top.op = "load"
       /\ Top.calls >= 1
       /\ ~LoaderFails(Top))
        => /\ last'.res = "AlreadyRegisteredKey"
           /\ last'.ekey = Top.key
           /\ Cardinality({c \in DOMAIN storage'.cache : c[1] = Top.key}) = 1 ]_vars

\* C32: a call that returns AlreadyRegisteredKey, i.e. whose every inject was
\* refused, leaves the cache, the reload closures, the dependency edges and
\* the cells as they were; the error carries the key that was refused.
C32_RefusedInjectNoEffect ==
  [][ last'.res = "AlreadyRegisteredKey"
        => /\ storage'.cache = storage.cache
           /\ storage'.metadata = storage.metadata
           /\ storage'.deps = storage.deps
           /\ cells' = cells
           /\ last'.ekey \in DOMAIN storage.metadata ]_vars

\* The loader of a as T2 declared f, its inject was refused because a is
\* installed as T1, and f has a as its only observer.
C32_Witness ==
  /\ last.act = "loaded"
  /\ last.res = "AlreadyRegisteredKey"
  /\ last.key = KeyA
  /\ last.ty = "T2"
  /\ <<KeyA, "T1">> \in DOMAIN storage.cache
  /\ <<KeyA, "T2">> \notin DOMAIN storage.cache
  /\ storage.deps = (KeyAbsF :> <<KeyA>>)

\* C33: a sync that has started returns, whatever the dependency graph.  In
\* the reload phase the keys still dirty and the keys whose own closure was
\* called stay disjoint and their union does not change, no key has its own
\* closure called twice, and after the closure of a dirty key k at most
\* Len(deps[k]) observers are reloaded before the next dirty key is taken.
C33_SyncTerminates ==
  /\ (synchronizer.pc # "idle") ~> (synchronizer.pc = "idle")
  /\ [](LET rlog == synchronizer.rlog
            prim == {i \in DOMAIN rlog : rlog[i].primary}
        IN /\ \A i, j \in prim : rlog[i].key = rlog[j].key => i = j
           /\ \A i \in prim : rlog[i].key \notin synchronizer.dirties
           /\ \A i \in prim :
                LET nxt == {j \in prim : j > i}
                    end == IF nxt = {} THEN Len(rlog)
                           ELSE (CHOOSE j \in nxt : \A j2 \in nxt : j <= j2) - 1
                IN end - i <= Len(observers(storage, rlog[i].key)))
  /\ [][ (synchronizer.pc \notin {"idle", "dequeue"} /\ synchronizer'.pc # "idle")
           => synchronizer'.dirties
                \cup {synchronizer'.rlog[i].key : i \in DOMAIN synchronizer'.rlog}
              = synchronizer.dirties
                \cup {synchronizer.rlog[i].key : i \in DOMAIN synchronizer.rlog}
                \cup (IF last'.act = "obs_reload" THEN {last'.key} ELSE {}) ]_vars

\* The cycle a <-> f after an event on f: f was reloaded, then a, and the
\* reload phase is over without a second call of f's closure.
C33_Witness ==
  /\ storage.deps = (KeyAbsF :> <<KeyA>>) @@ (KeyA :> <<KeyAbsF>>)
  /\ last.act = "reinserted"
  /\ synchronizer.pc = "reload"
  /\ synchronizer.dirties = {}
  /\ Len(synchronizer.rlog) = 2
  /\ synchronizer.rlog[1].key = KeyAbsF
  /\ synchronizer.rlog[1].primary
  /\ synchronizer.rlog[1].res = "Ok"
  /\ synchronizer.rlog[2].key = KeyA
  /\ ~synchronizer.rlog[2].primary
  /\ synchronizer.rlog[2].res = "Ok"

\* C34: when the events are drained and every resource a loader reads is
\* installed, reload_dirties leaves the same contents in every handle
\* whatever the order in which the dirty keys are visited.
C34_SyncDeterministic ==
  (/\ last.act = "dequeued"
   /\ \A k \in DOMAIN storage.metadata :
        \A i \in DOMAIN (CHOOSE d \in OrderDeps[k] : TRUE) :
          prepare_key((CHOOSE d \in OrderDeps[k] : TRUE)[i], canon_root)
            \in DOMAIN storage.metadata)
    => \A o1, o2 \in Orders(synchronizer.dirties) :
         reload_dirties_order(storage, cells, o1)
           = reload_dirties_order(storage, cells, o2)

\* C35: a handle never has a RefMut live together with another guard.  The
\* contents of a handle do not change while a Ref of it is live; a reload
\* closure is not entered while a RefMut of its handle is live; and when the
\* loader of a reload closure returns a value while a guard of the handle is
\* live, the replacement panics and leaves every cell as it was.
C35_BorrowChecked ==
  /\ [](\A h \in DOMAIN borrows :
          /\ borrows[h].writers <= 1
          /\ borrows[h].writers = 1 => borrows[h].readers = 0)
  /\ [][ /\ \A h \in 1..Len(cells) :
              BorrowFlag(borrows, h).readers > 0 => cells'[h] = cells[h]
         /\ last'.act \in {"reload", "obs_reload"}
              => BorrowFlag(borrows, last'.h).writers = 0
         /\ (/\ stack # <<>>
             /\ Top.op = "reload"
             /\ stack' = <<>>
             /\ ~LoaderFails(Top)
             /\ BorrowFlag(borrows, Top.h) # NoBorrow)
              => /\ last'.act = "panic"
                 /\ cells' = cells
                 /\ synchronizer'.pc = "panicked" ]_vars

\* The client holds a Ref of the handle of f, the file was rewritten, and
\* the reload closure of f panicked at its borrow_mut: the handle still
\* holds the old contents.
C35_Witness ==
  /\ last.act = "panic"
  /\ last.key = KeyAbsF
  /\ synchronizer.pc = "panicked"
  /\ BorrowFlag(borrows, last.h) = [readers |-> 1, writers |-> 0]
  /\ cells[last.h] = "v1"
  /\ files["f"] = "v2"

\* C36: only path keys are dirty.  The reload closure of a logical key is
\* called only as that of an observer, after the own closure of a path key
\* that lists it in deps returned Ok in the same sync; and the contents of an
\* installed logical key that no key lists as an observer never change.
C36_LogicalOnlyCascaded ==
  /\ [](/\ \A k \in synchronizer.dirties : k.kind = "Path"
        /\ \A i \in DOMAIN synchronizer.rlog :
             LET rlog == synchronizer.rlog
             IN rlog[i].key.kind = "Logical"
                  => /\ ~rlog[i].primary
                     /\ \E j \in 1..(i - 1) :
                          /\ rlog[j].primary
                          /\ rlog[j].res = "Ok"
                          /\ rlog[j].key.kind = "Path"
                          /\ \A n \in (j + 1)..i : ~rlog[n].primary
                          /\ rlog[j].key \in DOMAIN storage.deps
                          /\ \E n \in DOMAIN storage.deps[rlog[j].key] :
                               storage.deps[rlog[j].key][n] = rlog[i].key)
  /\ [][ \A k \in DOMAIN storage.metadata :
           (/\ k.kind = "Logical"
            /\ \A d \in DOMAIN storage.deps :
                 \A n \in DOMAIN storage.deps[d] : storage.deps[d][n] # k)
             => cells'[storage.metadata[k].h] = cells[storage.metadata[k].h] ]_vars

\* The logical resource a was installed without dependencies; the file f
\* was rewritten and reloaded in a sync, and a still holds what its loader
\* first returned.
C36_Witness ==
  /\ last.act = "reinserted"
  /\ KeyA \in DOMAIN storage.metadata
  /\ KeyAbsF \in DOMAIN storage.metadata
  /\ storage.deps = EmptyFn
  /\ Len(synchronizer.rlog) = 1
  /\ synchronizer.rlog[1].key = KeyAbsF
  /\ synchronizer.rlog[1].res = "Ok"
  /\ cells[storage.metadata[KeyAbsF].h] = "v2"
  /\ cells[storage.metadata[KeyA].h] = LogicalVal

\* C37: while the reload closure of a key k runs, no dependency edge with
\* dependent k is added or removed; and a key whose entry was installed by
\* the proxy fallback is never listed as an observer of any key.
C37_ReloadAddsNoEdge ==
  /\ [][ LET edges(deps, k) ==
               UNION {{<<d, n>> : n \in {m \in DOMAIN deps[d] : deps[d][m] = k}} :
                      d \in DOMAIN deps}
         IN /\ synchronizer.pc = "on_reload"
                 => edges(storage'.deps, synchronizer.key)
                      = edges(storage.deps, synchronizer.key)
            /\ synchronizer.pc = "obs_reload"
                 => edges(storage'.deps, synchronizer.obs_key)
                      = edges(storage.deps, synchronizer.obs_key) ]_vars
  /\ [](\A c \in DOMAIN storage.cache :
          c \notin DOMAIN first
            => \A d \in DOMAIN storage.deps :
                 \A n \in DOMAIN storage.deps[d] : storage.deps[d][n] # c[1])

\* C38: whether an event marks its key dirty or goes to the discovery hook
\* is decided by the reload closures the storage holds when the event is
\* taken from the channel, whenever the key was installed; a key leaves the
\* dirty set only when its own closure is called, and sync returns only
\* with no key dirty, so a key marked dirty is reloaded in the same sync.
C38_InstalledWhenProcessed ==
  [][ /\ (/\ synchronizer.pc = "dequeue"
          /\ stack = <<>>
          /\ watcher_rx # <<>>
          /\ watcher_rx' = Tail(watcher_rx)
          /\ Head(watcher_rx).kind \in {"Write", "Create"})
           => LET k == EventKey(Head(watcher_rx).file)
              IN IF k \in DOMAIN storage.metadata
                   THEN /\ last'.act = "dirty"
                        /\ synchronizer'.dirties = synchronizer.dirties \cup {k}
                        /\ stack' = <<>>
                   ELSE /\ last'.act = "discover"
                        /\ synchronizer'.dirties = synchronizer.dirties
                        /\ stack' # <<>>
      /\ \A k \in synchronizer.dirties \ synchronizer'.dirties :
           /\ last'.act = "reload"
           /\ last'.key = k
           /\ stack' # <<>>
      /\ last'.act = "synced" => synchronizer.dirties = {} ]_vars

\* The discovery hook, called for an event on f, has just installed f, and
\* a second event for f waits in the channel of the same drain.
C38_Witness ==
  /\ synchronizer.pc = "dequeue"
  /\ Len(stack) = 1
  /\ stack[1].op = "discover"
  /\ stack[1].key = KeyAbsF
  /\ last.act = "loaded"
  /\ last.ok
  /\ last.key = KeyAbsF
  /\ KeyAbsF \in DOMAIN storage.metadata
  /\ watcher_rx = <<[kind |-> "Write", file |-> "f"]>>

\* C39: a key that is on its own list of observers is reloaded exactly once
\* by the sync that finds it dirty: when the cascade comes to the key
\* itself its metadata is detached, so the cascade skips it, calls no
\* closure for it and does not insert it; the key is inserted into the
\* metadata map once, when the cascade is over.
C39_SelfDependencyOnce ==
  /\ [](\A i, j \in DOMAIN synchronizer.rlog :
          LET k == synchronizer.rlog[i].key
          IN (/\ synchronizer.rlog[j].key = k
              /\ k \in DOMAIN storage.deps
              /\ \E n \in DOMAIN storage.deps[k] : storage.deps[k][n] = k)
                => i = j)
  /\ [][ /\ (/\ synchronizer.pc = "cascade"
             /\ synchronizer.casc # <<>>
             /\ Head(synchronizer.casc) = synchronizer.key
             /\ synchronizer'.casc = Tail(synchronizer.casc))
              => /\ last'.act = "obs_skip"
                 /\ stack' = <<>>
                 /\ storage' = storage
         /\ (last'.act = "reinserted" /\ synchronizer.pc = "cascade")
              => /\ synchronizer.key \notin DOMAIN storage.metadata
                 /\ storage'.metadata[synchronizer.key] = synchronizer.md ]_vars

====
